---- MODULE Spec2Model ----
(***************************************************************************)
(* A model of qitensor's labelled-tensor core: HilbertAtom (atom.py) and   *)
(* HilbertArray (array.py).  Arrays carry a space (a ket set and a bra     *)
(* set of atoms), an axis list (sorted kets, then sorted bras) and a dense *)
(* buffer.  Buffers are modelled as numpy arrays: a shape and a function   *)
(* from physical index tuples to entries.  Physical axis positions are     *)
(* 1-based here (numpy's are 0-based); entries are integers, an exactly    *)
(* representable subset of the complex base field.                         *)
(*                                                                         *)
(* qitensor/space.py and qitensor/basefield.py are not part of the source  *)
(* tree at hand; the few operations of theirs that array.py                *)
(* and atom.py call (create_space1, create_space2, the space product, H,   *)
(* sorted_kets, sorted_bras, shape, Space.array, eye, indexed_space) are   *)
(* modelled from the specification.                                        *)
(***************************************************************************)
EXTENDS Integers, Sequences, FiniteSets, TLC

VARIABLES x, y, z, cs, s1, s2, out, mode, heap, xkey, val

vars == <<x, y, z, cs, s1, s2, out, mode, heap, xkey, val>>

(***************************************************************************)
(* Bounds of the model.                                                    *)
(***************************************************************************)
\* largest rank of an operand array drawn by Init
MaxRank == 3
\* number of different buffer contents drawn per space and kind
MaxSeed == 2
\* largest number of atoms in an explicit contraction / transpose selector
MaxSel == 2
\* largest rank of the three factors of a double product
MaxMulRank == 2

(***************************************************************************)
(* Atoms (atom.py).                                                        *)
(***************************************************************************)
\* every label in use, in string order ("a" < "a'" < "a''" < "b" < ...); the
\* primed ones are the labels that HilbertAtom.prime derives
LabelOrder == <<"a", "a'", "a''", "b", "b'", "b''">>

\* the labels of the atoms that operand arrays are built from
Labels == {"a", "b"}

LabelRank(l) == CHOOSE i \in 1..Len(LabelOrder) : LabelOrder[i] = l

\* the index set of the atom with a label: qubit('a'),
\* indexed_space('b', (1, 2, 3)); a primed atom keeps the index set
Indices(l) == IF l \in {"a", "a'", "a''"} THEN <<0, 1>> ELSE <<1, 2, 3>>

\* HilbertAtom.__init__: label, indices, is_dual
HilbertAtom(label, indices, is_dual) ==
    [label |-> label, indices |-> indices, is_dual |-> is_dual]

AllAtoms == {HilbertAtom(l, Indices(l), d) : l \in Labels, d \in BOOLEAN}

\* atom._H: the cross-linked atom of opposite duality
H(a) == [a EXCEPT !.is_dual = ~@]

\* HilbertAtom.__cmp__ for two atoms whose index sets agree: label first, then
\* is_dual with False < True
cmp(self, other) ==
    IF LabelRank(self.label) < LabelRank(other.label) THEN -1
    ELSE IF LabelRank(self.label) > LabelRank(other.label) THEN 1
    ELSE IF (~self.is_dual) /\ other.is_dual THEN -1
    ELSE IF self.is_dual /\ (~other.is_dual) THEN 1
    ELSE 0

\* Python's sorted() on a set of atoms, by __cmp__
RECURSIVE sorted(_)
sorted(S) ==
    IF S = {} THEN <<>>
    ELSE LET m == CHOOSE a \in S : \A b \in S : cmp(a, b) <= 0
         IN  <<m>> \o sorted(S \ {m})

(***************************************************************************)
(* Spaces (space.py, basefield.py; modelled from the specification).       *)
(***************************************************************************)
\* base_field.create_space2(ket_set, bra_set)
create_space2(ket_set, bra_set) == [ket_set |-> ket_set, bra_set |-> bra_set]

\* base_field.create_space1(kets_and_bras): a list of atoms split by duality
create_space1(kets_and_bras) ==
    create_space2(
        {kets_and_bras[i] : i \in {j \in 1..Len(kets_and_bras) : ~kets_and_bras[j].is_dual}},
        {kets_and_bras[i] : i \in {j \in 1..Len(kets_and_bras) : kets_and_bras[j].is_dual}})

\* an atom used where a space is expected: |a> has ket set {a}, <a| has bra set {a.H}
AtomSpace(a) == IF a.is_dual THEN create_space2({}, {a}) ELSE create_space2({a}, {})

\* the space made of a set of atoms of either duality
SpaceOf(S) == create_space2({a \in S : ~a.is_dual}, {a \in S : a.is_dual})

sorted_kets(hs) == sorted(hs.ket_set)

sorted_bras(hs) == sorted(hs.bra_set)

\* the axis list of an array over hs: hs.sorted_kets + hs.sorted_bras
SpaceAxes(hs) == sorted_kets(hs) \o sorted_bras(hs)

\* hs.shape: the index-set sizes along the axis list
SpaceShape(hs) == [i \in 1..Len(SpaceAxes(hs)) |-> Len(SpaceAxes(hs)[i].indices)]

\* HilbertSpace.__mul__ can raise DuplicatedSpaceError: an atom in the same
\* duality role on both sides
mul_duplicated(A, B) ==
    (A.ket_set \cap B.ket_set # {}) \/ (A.bra_set \cap B.bra_set # {})

\* HilbertSpace.__mul__ when it returns: the union of the factor sets
space_mul(A, B) ==
    create_space2(A.ket_set \cup B.ket_set, A.bra_set \cup B.bra_set)

(***************************************************************************)
(* numpy buffers.                                                          *)
(***************************************************************************)
\* np.ndindex(shape): every physical index tuple
RECURSIVE ndindex(_)
ndindex(shape) ==
    IF Len(shape) = 0 THEN {<<>>}
    ELSE {<<i>> \o t : i \in 0..(Head(shape) - 1), t \in ndindex(Tail(shape))}

\* the sum of a function's values over a set of its arguments
RECURSIVE SumFn(_, _)
SumFn(f, D) ==
    IF D = {} THEN 0
    ELSE LET d == CHOOSE d \in D : TRUE
         IN  f[d] + SumFn(f, D \ {d})

\* a set of naturals as an ascending sequence
RECURSIVE Ascending(_)
Ascending(S) ==
    IF S = {} THEN <<>>
    ELSE LET m == CHOOSE i \in S : \A j \in S : i <= j
         IN  <<m>> \o Ascending(S \ {m})

\* the elements of a sequence
Range(seq) == {seq[i] : i \in 1..Len(seq)}

\* list.index(v) for an element that occurs: the first position holding v
index(list, v) ==
    CHOOSE i \in 1..Len(list) : list[i] = v /\ \A j \in 1..(i - 1) : list[j] # v

\* np.tensordot raises ValueError ("shape-mismatch for sum") unless the paired
\* axes have equal lengths
np_tensordot_ok(a, b, axes_a, axes_b) ==
    /\ Len(axes_a) = Len(axes_b)
    /\ \A j \in 1..Len(axes_a) : a.shape[axes_a[j]] = b.shape[axes_b[j]]

\* np.tensordot(a, b, axes=(axes_a, axes_b)): the axes of a not in axes_a, then
\* the axes of b not in axes_b; each entry sums over the paired axes
np_tensordot(a, b, axes_a, axes_b) ==
    LET free_a == Ascending((1..Len(a.shape)) \ Range(axes_a))
        free_b == Ascending((1..Len(b.shape)) \ Range(axes_b))
        nfa    == Len(free_a)
        shape  == [i \in 1..(nfa + Len(free_b)) |->
                      IF i <= nfa THEN a.shape[free_a[i]] ELSE b.shape[free_b[i - nfa]]]
        kshape == [j \in 1..Len(axes_a) |-> a.shape[axes_a[j]]]
        ia(idx, k) == [p \in 1..Len(a.shape) |->
                          IF p \in Range(axes_a) THEN k[index(axes_a, p)]
                          ELSE idx[index(free_a, p)]]
        ib(idx, k) == [p \in 1..Len(b.shape) |->
                          IF p \in Range(axes_b) THEN k[index(axes_b, p)]
                          ELSE idx[nfa + index(free_b, p)]]
    IN  [shape |-> shape,
         data  |-> [idx \in ndindex(shape) |->
                       SumFn([k \in ndindex(kshape) |->
                                 a.data[ia(idx, k)] * b.data[ib(idx, k)]],
                             ndindex(kshape))]]

\* ndarray.transpose(permute) accepts permute only if it is a permutation of the axes
np_transpose_ok(a, permute) ==
    /\ Len(permute) = Len(a.shape)
    /\ Range(permute) = 1..Len(a.shape)

\* ndarray.transpose(permute): axis i of the result is axis permute[i] of a
np_transpose(a, permute) ==
    LET shape == [i \in 1..Len(permute) |-> a.shape[permute[i]]]
    IN  [shape |-> shape,
         data  |-> [idx \in ndindex(shape) |->
                       a.data[[p \in 1..Len(a.shape) |-> idx[index(permute, p)]]]]]

(***************************************************************************)
(* HilbertArray (array.py).                                                *)
(***************************************************************************)
\* the outcome of a call: a returned value, or the exception raised
Return(v) == [exc |-> "None", val |-> v]

Raise(e) == [exc |-> e]

\* a call that has not been made yet
Pending == [exc |-> "pending"]

\* HilbertArray.__init__ with noinit_data=True, followed by the assignment of
\* nparray: the axis list is hs.sorted_kets + hs.sorted_bras
HilbertArray(space, nparray) ==
    [space |-> space, nparray |-> nparray, axes |-> SpaceAxes(space)]

\* HilbertArray.get_dim for an atom that is an axis: self.axes.index(simple_hilb)
get_dim(self, simple_hilb) == index(self.axes, simple_hilb)

\* HilbertArray.__eq__
array_eq(self, other) ==
    IF self.space # other.space THEN FALSE
    ELSE self.nparray = other.nparray

\* the three forms of the contraction_spaces argument of tensordot
SelNone == [kind |-> "None"]

SelFrozenset(S) == [kind |-> "frozenset", atoms |-> S]

SelSpace(K) == [kind |-> "HilbertSpace", space |-> K]

\* a variant of the default contraction set that forgets the dagger: self's bras
\* intersected with other's kets
default_mul_space_no_dagger(hs, ohs) == hs.bra_set \cap ohs.ket_set

\* tensordot, contraction_spaces=None: the daggers of self's bras that are kets
\* of other
default_mul_space(hs, ohs) == {H(b) : b \in hs.bra_set} \cap ohs.ket_set

\* tensordot, the loop over a frozenset argument.  Every member is an atom, so
\* the isinstance test passes; the next statement calls x.is_dual(), and
\* is_dual is the bool attribute set by HilbertAtom.__init__ (atom.py line 15),
\* so the call raises TypeError for the first member, ket or bra.
frozenset_check(mul_space) ==
    IF mul_space = {} THEN "None" ELSE "TypeError"

\* tensordot, a HilbertSpace argument must have no bras
space_check(contraction_spaces) ==
    IF Cardinality(contraction_spaces.bra_set) > 0 THEN "NotKetSpaceError" ELSE "None"

\* tensordot: the exception raised while reading contraction_spaces, if any
select_exc(contraction_spaces) ==
    CASE contraction_spaces.kind = "None" -> "None"
      [] contraction_spaces.kind = "frozenset" -> frozenset_check(contraction_spaces.atoms)
      [] contraction_spaces.kind = "HilbertSpace" -> space_check(contraction_spaces.space)

\* tensordot: the local mul_space
select_mul_space(hs, ohs, contraction_spaces) ==
    CASE contraction_spaces.kind = "None" -> default_mul_space(hs, ohs)
      [] contraction_spaces.kind = "frozenset" -> contraction_spaces.atoms
      [] contraction_spaces.kind = "HilbertSpace" -> contraction_spaces.space.ket_set

\* tensordot: the two factors of ret_space
ret_space_left(hs, mul_space) ==
    create_space2(hs.ket_set, hs.bra_set \ {H(c) : c \in mul_space})

ret_space_right(ohs, mul_space) ==
    create_space2(ohs.ket_set \ mul_space, ohs.bra_set)

\* tensordot: the axes to contract, paired in sorted(mul_space) order
axes_self(self, mul_space) ==
    [i \in 1..Cardinality(mul_space) |-> get_dim(self, H(sorted(mul_space)[i]))]

axes_other(other, mul_space) ==
    [i \in 1..Cardinality(mul_space) |-> get_dim(other, sorted(mul_space)[i])]

\* a variant of td_axes that lists both operands' kets before their bras, which
\* is not the order np.tensordot produces
td_axes_kets_first(hs, ohs, mul_space) ==
    LET not_in_mul_H(a) == H(a) \notin mul_space
        not_in_mul_space(a) == a \notin mul_space
    IN  sorted_kets(hs)
          \o SelectSeq(sorted_kets(ohs), not_in_mul_space)
          \o SelectSeq(sorted_bras(hs), not_in_mul_H)
          \o sorted_bras(ohs)

\* tensordot: the atoms of the raw contraction's axes, in order
td_axes(hs, ohs, mul_space) ==
    LET not_in_mul_H(a) == H(a) \notin mul_space
        not_in_mul_space(a) == a \notin mul_space
    IN  sorted_kets(hs)
          \o SelectSeq(sorted_bras(hs), not_in_mul_H)
          \o SelectSeq(sorted_kets(ohs), not_in_mul_space)
          \o sorted_bras(ohs)

\* a variant of permute that is the inverse permutation:
\* [ret.axes.index(x) for x in td_axes]
td_permute_inverse(tdaxes, ret_axes) ==
    [i \in 1..Len(tdaxes) |-> index(ret_axes, tdaxes[i])]

\* tensordot: permute = tuple([td_axes.index(x) for x in ret.axes])
td_permute(tdaxes, ret_axes) ==
    [i \in 1..Len(ret_axes) |-> index(tdaxes, ret_axes[i])]

\* HilbertArray.tensordot
tensordot(self, other, contraction_spaces) ==
    LET hs  == self.space
        ohs == other.space
        exc == select_exc(contraction_spaces)
        mul_space == select_mul_space(hs, ohs, contraction_spaces)
        left  == ret_space_left(hs, mul_space)
        right == ret_space_right(ohs, mul_space)
    IN  IF exc # "None" THEN Raise(exc)
        ELSE IF mul_duplicated(left, right) THEN Raise("DuplicatedSpaceError")
        ELSE IF \E c \in mul_space :
                    H(c) \notin Range(self.axes) \/ c \notin Range(other.axes)
             THEN Raise("ValueError")
        ELSE
          LET ret_space == space_mul(left, right)
              td == np_tensordot(self.nparray, other.nparray,
                                 axes_self(self, mul_space), axes_other(other, mul_space))
              tdaxes == td_axes(hs, ohs, mul_space)
              permute == td_permute(tdaxes, SpaceAxes(ret_space))
          IN  IF ~np_tensordot_ok(self.nparray, other.nparray,
                                  axes_self(self, mul_space), axes_other(other, mul_space))
              THEN Raise("ValueError")
              ELSE IF Len(tdaxes) # Len(td.shape) THEN Raise("AssertionError")
              ELSE IF ~np_transpose_ok(td, permute) THEN Raise("ValueError")
              ELSE Return(HilbertArray(ret_space, np_transpose(td, permute)))

\* HilbertArray.__mul__ for two arrays
array_mul(self, other) == tensordot(self, other, SelNone)

\* transpose: the selector, with None standing for the array's own space
tpose_space(self, tpose_axes) ==
    IF tpose_axes.kind = "None" THEN self.space ELSE tpose_axes.space

\* a variant of the presence test that forgets "or x.H in self.axes"
tpose_missing_same_duality(self, tpose_axes) ==
    \E a \in tpose_space(self, tpose_axes).bra_set \cup tpose_space(self, tpose_axes).ket_set :
        ~(a \in Range(self.axes))

\* a variant of the presence test that walks the selector's ket set only
tpose_missing_kets_only(self, tpose_axes) ==
    \E a \in tpose_space(self, tpose_axes).ket_set :
        ~(a \in Range(self.axes) \/ H(a) \in Range(self.axes))

\* transpose raises HilbertIndexError: some atom of bra_set | ket_set is not an
\* axis of self in either duality
tpose_missing(self, tpose_axes) ==
    \E a \in tpose_space(self, tpose_axes).bra_set \cup tpose_space(self, tpose_axes).ket_set :
        ~(a \in Range(self.axes) \/ H(a) \in Range(self.axes))

\* a variant of tpose_atoms that keeps the selector's atoms as given
tpose_atoms_as_given(self, tpose_axes) ==
    tpose_space(self, tpose_axes).bra_set \cup tpose_space(self, tpose_axes).ket_set

\* transpose: tpose_atoms, the selected atoms with every bra replaced by its ket
\* (a list in the code, used for membership only)
tpose_atoms(self, tpose_axes) ==
    {IF a.is_dual THEN H(a) ELSE a :
        a \in tpose_space(self, tpose_axes).bra_set \cup tpose_space(self, tpose_axes).ket_set}

\* a variant of in_space_dualled that looks the axis itself up in tpose_atoms
in_space_dualled_unnormalised(self, atoms) ==
    [i \in 1..Len(self.axes) |->
        IF self.axes[i] \in atoms THEN H(self.axes[i]) ELSE self.axes[i]]

\* transpose: in_space_dualled, the axis list with the selected axes daggered
in_space_dualled(self, atoms) ==
    [i \in 1..Len(self.axes) |->
        LET xx == self.axes[i]
            yy == IF xx.is_dual THEN H(xx) ELSE xx
        IN  IF yy \in atoms THEN H(xx) ELSE xx]

\* a variant of the transpose permutation that is its inverse:
\* [ret.axes.index(x) for x in in_space_dualled]
tpose_permute_inverse(dualled, ret_axes) ==
    [i \in 1..Len(dualled) |-> index(ret_axes, dualled[i])]

\* a variant of the transpose permutation that leaves the buffer as it is
tpose_permute_identity(dualled, ret_axes) ==
    [i \in 1..Len(ret_axes) |-> i]

\* transpose: permute = tuple([in_space_dualled.index(x) for x in ret.axes])
tpose_permute(dualled, ret_axes) ==
    [i \in 1..Len(ret_axes) |-> index(dualled, ret_axes[i])]

\* HilbertArray.transpose
transpose(self, tpose_axes) ==
    IF tpose_missing(self, tpose_axes) THEN Raise("HilbertIndexError")
    ELSE
      LET dualled   == in_space_dualled(self, tpose_atoms(self, tpose_axes))
          out_space == create_space1(dualled)
          permute   == tpose_permute(dualled, SpaceAxes(out_space))
      IN  IF ~np_transpose_ok(self.nparray, permute) THEN Raise("ValueError")
          ELSE Return(HilbertArray(out_space, np_transpose(self.nparray, permute)))

(***************************************************************************)
(* The operands drawn by the initial states.                               *)
(***************************************************************************)
\* the position of a physical index tuple in row-major order
RECURSIVE encode(_, _)
encode(idx, shape) ==
    IF Len(idx) = 0 THEN 0
    ELSE encode(SubSeq(idx, 1, Len(idx) - 1), SubSeq(shape, 1, Len(shape) - 1))
            * shape[Len(shape)] + idx[Len(idx)]

\* hs.array(data) with pairwise different entries seed, seed + 1, ...
Ramp(hs, seed) ==
    HilbertArray(hs, [shape |-> SpaceShape(hs),
                      data  |-> [idx \in ndindex(SpaceShape(hs)) |->
                                    seed + encode(idx, SpaceShape(hs))]])

\* hs.array(data) with a single 1, at the tuple numbered seed - 1 (modulo the size)
Basis(hs, seed) ==
    HilbertArray(hs, [shape |-> SpaceShape(hs),
                      data  |-> [idx \in ndindex(SpaceShape(hs)) |->
                                    IF encode(idx, SpaceShape(hs))
                                         = (seed - 1) % Cardinality(ndindex(SpaceShape(hs)))
                                    THEN 1 ELSE 0]])

\* the spaces of the operands: at least one and at most MaxRank atoms
Spaces == {SpaceOf(S) : S \in {T \in SUBSET AllAtoms : Cardinality(T) \in 1..MaxRank}}

Operands ==
    {Ramp(hs, seed) : hs \in Spaces, seed \in 1..MaxSeed}
      \cup {Basis(hs, seed) : hs \in Spaces, seed \in 1..MaxSeed}

\* the second operands: one buffer of each kind per space
SecondOperands == {Ramp(hs, 1) : hs \in Spaces} \cup {Basis(hs, 2) : hs \in Spaces}

\* the atom sets given as explicit selectors
Selections == {T \in SUBSET AllAtoms : Cardinality(T) <= MaxSel}

(***************************************************************************)
(* Contraction: x.tensordot(y), x.tensordot(y, frozenset(cs)) and          *)
(* x.tensordot(y, K) with K the space of the atoms cs.                     *)
(***************************************************************************)
InitTd ==
    /\ x \in Operands
    /\ y \in SecondOperands
    /\ z = x
    /\ cs \in Selections
    /\ s1 = {}
    /\ s2 = {}
    /\ out = [none |-> Pending, fs |-> Pending, sp |-> Pending]
    /\ mode = "td"
    /\ heap = <<>>
    /\ xkey = 0
    /\ val = 0

TensordotNone ==
    /\ mode = "td"
    /\ out.none = Pending
    /\ out' = [out EXCEPT !.none = tensordot(x, y, SelNone)]
    /\ UNCHANGED <<x, y, z, cs, s1, s2, mode, heap, xkey, val>>

TensordotFrozenset ==
    /\ mode = "td"
    /\ out.none # Pending
    /\ out.fs = Pending
    /\ out' = [out EXCEPT !.fs = tensordot(x, y, SelFrozenset(cs))]
    /\ UNCHANGED <<x, y, z, cs, s1, s2, mode, heap, xkey, val>>

TensordotSpace ==
    /\ mode = "td"
    /\ out.fs # Pending
    /\ out.sp = Pending
    /\ out' = [out EXCEPT !.sp = tensordot(x, y, SelSpace(SpaceOf(cs)))]
    /\ UNCHANGED <<x, y, z, cs, s1, s2, mode, heap, xkey, val>>

NextTd == TensordotNone \/ TensordotFrozenset \/ TensordotSpace

SpecTd == InitTd /\ [][NextTd]_vars

(***************************************************************************)
(* Entries addressed by atom rather than by physical axis.                 *)
(***************************************************************************)
\* every assignment of an index position to each atom of a set
Assignments(atoms) ==
    {g \in [atoms -> 0..2] : \A a \in atoms : g[a] < Len(a.indices)}

\* the entry of an array at an assignment covering its axes
Entry(arr, g) == arr.nparray.data[[i \in 1..Len(arr.axes) |-> g[arr.axes[i]]]]

\* an array is well formed: axes are the space's sorted kets then bras, and the
\* buffer's shape is the index-set sizes along them
WellFormed(arr) ==
    /\ arr.axes = SpaceAxes(arr.space)
    /\ arr.nparray.shape = [i \in 1..Len(arr.axes) |-> Len(arr.axes[i].indices)]
    /\ DOMAIN arr.nparray.data = ndindex(arr.nparray.shape)

\* the contraction of X and Y over the ket atoms C, at the assignment g of the
\* result's atoms: dagger(c) in X is paired with c in Y
ContractionSum(X, Y, C, g) ==
    SumFn([k \in Assignments(C) |->
              Entry(X, [a \in Range(X.axes) |->
                           IF a.is_dual /\ H(a) \in C THEN k[H(a)] ELSE g[a]])
                * Entry(Y, [a \in Range(Y.axes) |->
                               IF a \in C THEN k[a] ELSE g[a]])],
          Assignments(C))

\* the result r is the contraction of X and Y over C, entry by entry
IsContraction(r, X, Y, C) ==
    /\ WellFormed(r)
    /\ \A g \in Assignments(Range(r.axes)) : Entry(r, g) = ContractionSum(X, Y, C, g)

\* the dagger-matched intersection of x's bras and y's kets
Matched == {c \in y.space.ket_set : H(c) \in x.space.bra_set}

\* C1: whenever x.tensordot(y) returns, it has contracted exactly the atoms
\* Matched: the result's ket set is kets(x) with the kets of y not in Matched,
\* its bra set is the bras of x not in dagger(Matched) with bras(y), and its
\* rank is rank(x) + rank(y) - 2 |Matched|.
C1_DefaultContraction ==
    (mode = "td" /\ out.none.exc = "None") =>
        LET r == out.none.val
        IN  /\ r.space.ket_set = x.space.ket_set \cup (y.space.ket_set \ Matched)
            /\ r.space.bra_set =
                   (x.space.bra_set \ {H(c) : c \in Matched}) \cup y.space.bra_set
            /\ Len(r.axes) = Len(x.axes) + Len(y.axes) - 2 * Cardinality(Matched)
            /\ Len(r.nparray.shape) = Len(r.axes)

\* C1 witness: a default contraction over a matched atom returned an array
\* that still has axes
C1_Witness ==
    /\ mode = "td"
    /\ out.none.exc = "None"
    /\ Matched # {}
    /\ Len(out.none.val.axes) > 0

\* C2: every tensordot call that returns gives, at each assignment of index
\* values to the result's atoms, the sum over the contracted atoms of the
\* product of the operands' entries, in an array whose axes are the result
\* space's sorted kets then sorted bras.
C2_ContractionEntries ==
    mode = "td" =>
        /\ out.none.exc = "None" => IsContraction(out.none.val, x, y, Matched)
        /\ out.fs.exc = "None" => IsContraction(out.fs.val, x, y, cs)
        /\ out.sp.exc = "None" => IsContraction(out.sp.val, x, y, cs)

\* C2 witness: an explicit contraction returned where x keeps a bra and y keeps a
\* ket, so the raw axes had to be reordered
C2_Witness ==
    /\ mode = "td"
    /\ out.sp.exc = "None"
    /\ cs # {}
    /\ x.space.bra_set \ {H(c) : c \in cs} # {}
    /\ y.space.ket_set \ cs # {}
    /\ td_permute(td_axes(x.space, y.space, cs), out.sp.val.axes)
           # [i \in 1..Len(out.sp.val.axes) |-> i]

\* C4 (as claimed): an explicit selector containing a bra atom is rejected with
\* NotKetSpaceError, given as a frozenset or as a space.
C4_BraSelectorRejected ==
    (mode = "td" /\ \E a \in cs : a.is_dual) =>
        /\ out.fs # Pending => out.fs.exc = "NotKetSpaceError"
        /\ out.sp # Pending => out.sp.exc = "NotKetSpaceError"

\* the selector cs is a non-empty set of kets, each matched in x and in y
ValidKetSelector ==
    /\ cs # {}
    /\ \A c \in cs : ~c.is_dual /\ H(c) \in Range(x.axes) /\ c \in Range(y.axes)

\* C5 (as claimed): a non-empty frozenset of matched ket atoms is accepted as a
\* selector and gives the same outcome as the ket space of the same atoms.
C5_FrozensetAsSpace ==
    (mode = "td" /\ ValidKetSelector /\ out.fs # Pending /\ out.sp # Pending) =>
        /\ out.fs.exc \notin {"TypeError", "NotKetSpaceError"}
        /\ out.fs = out.sp

(***************************************************************************)
(* Products of three arrays: (x * y) * z and x * (y * z).                  *)
(***************************************************************************)
MulSpaces == {SpaceOf(S) : S \in {T \in SUBSET AllAtoms : Cardinality(T) \in 1..MaxMulRank}}

MulOperands == {Ramp(hs, seed) : hs \in MulSpaces, seed \in 1..MaxSeed}

InitMul ==
    /\ x \in MulOperands
    /\ y \in {Ramp(hs, 1) : hs \in MulSpaces}
    /\ z \in {Ramp(hs, 2) : hs \in MulSpaces}
    /\ cs = {}
    /\ s1 = {}
    /\ s2 = {}
    /\ out = [xy |-> Pending, lhs |-> Pending, yz |-> Pending, rhs |-> Pending]
    /\ mode = "mul"
    /\ heap = <<>>
    /\ xkey = 0
    /\ val = 0

\* x * y
MulXY ==
    /\ mode = "mul"
    /\ out.xy = Pending
    /\ out' = [out EXCEPT !.xy = array_mul(x, y)]
    /\ UNCHANGED <<x, y, z, cs, s1, s2, mode, heap, xkey, val>>

\* (x * y) * z, once x * y has returned
MulXY_Z ==
    /\ mode = "mul"
    /\ out.xy.exc = "None"
    /\ out.lhs = Pending
    /\ out' = [out EXCEPT !.lhs = array_mul(out.xy.val, z)]
    /\ UNCHANGED <<x, y, z, cs, s1, s2, mode, heap, xkey, val>>

\* y * z
MulYZ ==
    /\ mode = "mul"
    /\ out.yz = Pending
    /\ out' = [out EXCEPT !.yz = array_mul(y, z)]
    /\ UNCHANGED <<x, y, z, cs, s1, s2, mode, heap, xkey, val>>

\* x * (y * z), once y * z has returned
MulX_YZ ==
    /\ mode = "mul"
    /\ out.yz.exc = "None"
    /\ out.rhs = Pending
    /\ out' = [out EXCEPT !.rhs = array_mul(x, out.yz.val)]
    /\ UNCHANGED <<x, y, z, cs, s1, s2, mode, heap, xkey, val>>

NextMul == MulXY \/ MulXY_Z \/ MulYZ \/ MulX_YZ

SpecMul == InitMul /\ [][NextMul]_vars

\* C3: when (x * y) * z and x * (y * z) both return, they are equal arrays: the
\* same space and the same entries.
C3_MulAssociative ==
    (mode = "mul" /\ out.lhs.exc = "None" /\ out.rhs.exc = "None") =>
        array_eq(out.lhs.val, out.rhs.val)

\* C3 witness: both products returned, and both multiplications of one of them
\* contracted an axis
C3_Witness ==
    /\ mode = "mul"
    /\ out.lhs.exc = "None"
    /\ out.rhs.exc = "None"
    /\ default_mul_space(x.space, y.space) # {}
    /\ default_mul_space(out.xy.val.space, z.space) # {}
    /\ Len(out.lhs.val.axes) > 1

(***************************************************************************)
(* Transposes: x.transpose(s1).transpose(s2) and x.transpose(s2).transpose(s1) *)
(***************************************************************************)
\* the selectors of a transpose: None, or the space of a non-empty set of atoms
TposeSelectors ==
    {SelNone} \cup {SelSpace(SpaceOf(T)) : T \in Selections \ {{}}}

InitTp ==
    /\ x \in Operands
    /\ y = x
    /\ z = x
    /\ cs = {}
    /\ s1 \in TposeSelectors
    /\ s2 \in TposeSelectors
    /\ out = [p1 |-> Pending, p2 |-> Pending, q1 |-> Pending, q2 |-> Pending]
    /\ mode = "tp"
    /\ heap = <<>>
    /\ xkey = 0
    /\ val = 0

\* x.transpose(s1)
TransposeS1 ==
    /\ mode = "tp"
    /\ out.p1 = Pending
    /\ out' = [out EXCEPT !.p1 = transpose(x, s1)]
    /\ UNCHANGED <<x, y, z, cs, s1, s2, mode, heap, xkey, val>>

\* x.transpose(s1).transpose(s2), once the first transpose has returned
TransposeS1S2 ==
    /\ mode = "tp"
    /\ out.p1.exc = "None"
    /\ out.p2 = Pending
    /\ out' = [out EXCEPT !.p2 = transpose(out.p1.val, s2)]
    /\ UNCHANGED <<x, y, z, cs, s1, s2, mode, heap, xkey, val>>

\* x.transpose(s2)
TransposeS2 ==
    /\ mode = "tp"
    /\ out.q1 = Pending
    /\ out' = [out EXCEPT !.q1 = transpose(x, s2)]
    /\ UNCHANGED <<x, y, z, cs, s1, s2, mode, heap, xkey, val>>

\* x.transpose(s2).transpose(s1), once the first transpose has returned
TransposeS2S1 ==
    /\ mode = "tp"
    /\ out.q1.exc = "None"
    /\ out.q2 = Pending
    /\ out' = [out EXCEPT !.q2 = transpose(out.q1.val, s1)]
    /\ UNCHANGED <<x, y, z, cs, s1, s2, mode, heap, xkey, val>>

NextTp == TransposeS1 \/ TransposeS1S2 \/ TransposeS2 \/ TransposeS2S1

SpecTp == InitTp /\ [][NextTp]_vars

\* the atoms of a transpose selector given as a space
SelAtoms(sel) == sel.space.ket_set \cup sel.space.bra_set

\* the labels of a set of atoms
LabelsOf(S) == {a.label : a \in S}

\* C6: the full transpose applied twice returns an array equal to x.
C6_TransposeInvolution ==
    (mode = "tp" /\ s1 = SelNone /\ s2 = SelNone /\ out.p1 # Pending) =>
        /\ out.p1.exc = "None"
        /\ out.p2 # Pending => (out.p2.exc = "None" /\ array_eq(out.p2.val, x))

\* C6 witness: a full transpose of an array with a ket and a bra of different
\* sizes was applied twice
C6_Witness ==
    /\ mode = "tp"
    /\ s1 = SelNone
    /\ s2 = SelNone
    /\ out.p2.exc = "None"
    /\ out.p1.val.nparray # x.nparray
    /\ Cardinality(LabelsOf(Range(x.axes))) > 1
    /\ x.space.ket_set # {}
    /\ x.space.bra_set # {}

\* s1 and s2 are spaces sharing no atom in either duality, all of whose atoms
\* are present in x in some duality
DisjointPresent ==
    /\ s1 # SelNone
    /\ s2 # SelNone
    /\ LabelsOf(SelAtoms(s1)) \cap LabelsOf(SelAtoms(s2)) = {}
    /\ LabelsOf(SelAtoms(s1)) \cup LabelsOf(SelAtoms(s2)) \subseteq LabelsOf(Range(x.axes))

\* C7: partial transposes over disjoint subspaces present in x commute.
C7_PartialTransposeCommute ==
    (mode = "tp" /\ DisjointPresent) =>
        /\ out.p1 # Pending => out.p1.exc = "None"
        /\ out.q1 # Pending => out.q1.exc = "None"
        /\ out.p2 # Pending => out.p2.exc = "None"
        /\ out.q2 # Pending => out.q2.exc = "None"
        /\ (out.p2 # Pending /\ out.q2 # Pending) => array_eq(out.p2.val, out.q2.val)

\* C7 witness: both orders were carried out on an array of rank 3 or more
C7_Witness ==
    /\ mode = "tp"
    /\ DisjointPresent
    /\ out.p2.exc = "None"
    /\ out.q2.exc = "None"
    /\ Len(x.axes) >= 3
    /\ out.p2.val.nparray # x.nparray

\* s1 is a single atom that is an axis of x in some duality, s2 is its dual
AtomAndDual ==
    /\ s1 # SelNone
    /\ s2 # SelNone
    /\ \E a \in AllAtoms :
          /\ s1 = SelSpace(AtomSpace(a))
          /\ s2 = SelSpace(AtomSpace(H(a)))
          /\ (a \in Range(x.axes) \/ H(a) \in Range(x.axes))

\* C8: an atom and its dual are equivalent transpose selectors.
C8_KetBraSelectorsAgree ==
    (mode = "tp" /\ AtomAndDual /\ out.p1 # Pending /\ out.q1 # Pending) =>
        /\ out.p1.exc = "None"
        /\ out.q1.exc = "None"
        /\ array_eq(out.p1.val, out.q1.val)

\* C8 witness: both transposes returned, and they changed the space
C8_Witness ==
    /\ mode = "tp"
    /\ AtomAndDual
    /\ out.p1.exc = "None"
    /\ out.q1.exc = "None"
    /\ out.p1.val.space # x.space
    /\ Len(x.axes) >= 2

\* the labels a transpose selector names, None naming every label of x
SelLabels(sel) ==
    IF sel = SelNone THEN LabelsOf(Range(x.axes)) ELSE LabelsOf(SelAtoms(sel))

\* the axis an axis of x becomes under a transpose over the given labels
Flipped(a, labels) == IF a.label \in labels THEN H(a) ELSE a

\* C9: when x.transpose(s1) returns, its axis set is x's with the duality
\* flipped for exactly the axes whose label occurs in s1, its rank is x's, and
\* at every index assignment (the flipped axis taking the index of the axis it
\* came from) its entry is x's entry.
C9_TransposeIsPermutation ==
    (mode = "tp" /\ out.p1.exc = "None") =>
        LET r == out.p1.val
            L == SelLabels(s1)
        IN  /\ Range(r.axes) = {Flipped(a, L) : a \in Range(x.axes)}
            /\ Len(r.axes) = Len(x.axes)
            /\ WellFormed(r)
            /\ \A g \in Assignments(Range(x.axes)) :
                  Entry(x, g) = Entry(r, [b \in Range(r.axes) |-> g[Flipped(b, L)]])

\* C9 witness: a partial transpose returned that flipped some axes, kept others
\* and reordered the buffer
C9_Witness ==
    /\ mode = "tp"
    /\ s1 # SelNone
    /\ out.p1.exc = "None"
    /\ \E a \in Range(x.axes) : a.label \in SelLabels(s1)
    /\ \E a \in Range(x.axes) : a.label \notin SelLabels(s1)
    /\ out.p1.val.nparray # x.nparray

\* s1 names an atom that is not an axis of x in either duality
NamesAbsentAtom ==
    /\ s1 # SelNone
    /\ \E a \in SelAtoms(s1) : a \notin Range(x.axes) /\ H(a) \notin Range(x.axes)

\* C10: x.transpose(s1) raises HilbertIndexError whenever s1 names an atom that
\* is not an axis of x in either duality; no array is returned and x is as it
\* was.
C10_TransposeAbsentAtom ==
    (mode = "tp" /\ NamesAbsentAtom /\ out.p1 # Pending) =>
        /\ out.p1 = Raise("HilbertIndexError")
        /\ out.p2 = Pending
        /\ x = y

\* C10 witness: a transpose was refused over a selector that names both an axis
\* of x and an absent bra
C10_Witness ==
    /\ mode = "tp"
    /\ NamesAbsentAtom
    /\ out.p1 = Raise("HilbertIndexError")
    /\ \E a \in SelAtoms(s1) : a \in Range(x.axes)
    /\ \E a \in SelAtoms(s1) : a.is_dual /\ a \notin Range(x.axes) /\ H(a) \notin Range(x.axes)

(***************************************************************************)
(* numpy arrays as objects.  A buffer lives in the heap (a sequence of     *)
(* buffers, each a shape and its entries); an ndarray object is a window   *)
(* onto one buffer: for every axis of the buffer either a fixed position   *)
(* or the axis of the window that runs along it.  ndarray.transpose and    *)
(* basic indexing (integers and slices) return windows onto the buffer of  *)
(* the array they are applied to; ndarray.copy and np.tensordot allocate   *)
(* a buffer.                                                               *)
(***************************************************************************)
ndarray(buf, shape, sel) == [buf |-> buf, shape |-> shape, sel |-> sel]

\* the ndarray that owns the whole of a buffer of a given shape
np_owner(buf, shape) ==
    ndarray(buf, shape, [p \in 1..Len(shape) |-> [fixed |-> FALSE, at |-> p]])

\* the place in the buffer of the entry of the window v at idx
base_index(v, idx) ==
    [p \in 1..Len(v.sel) |-> IF v.sel[p].fixed THEN v.sel[p].at ELSE idx[v.sel[p].at]]

\* the contents seen through the window v, as a shape and its entries
np_read(h, v) ==
    [shape |-> v.shape,
     data  |-> [idx \in ndindex(v.shape) |-> h[v.buf].data[base_index(v, idx)]]]

\* v[:] = new_data for entries new_data of the shape of v: written through the
\* window into the buffer
np_assign(h, v, new_data) ==
    [h EXCEPT ![v.buf].data =
        [b \in DOMAIN @ |->
            IF \E idx \in ndindex(v.shape) : base_index(v, idx) = b
            THEN new_data[CHOOSE idx \in ndindex(v.shape) : base_index(v, idx) = b]
            ELSE @[b]]]

\* ndarray.transpose(permute) on an ndarray object: a window onto the same buffer
np_view_transpose(v, permute) ==
    ndarray(v.buf,
            [i \in 1..Len(permute) |-> v.shape[permute[i]]],
            [p \in 1..Len(v.sel) |->
                IF v.sel[p].fixed THEN v.sel[p]
                ELSE [fixed |-> FALSE, at |-> index(permute, v.sel[p].at)]])

\* an entry of a slice_list: an integer position, or slice(None)
SliceInt(n) == [slice |-> FALSE, n |-> n]

SliceNone == [slice |-> TRUE, n |-> 0]

\* v[tuple(slice_list)] on an ndarray object: a window onto the same buffer,
\* with one axis for each slice(None)
np_view_index(v, slice_list) ==
    LET free == Ascending({j \in 1..Len(slice_list) : slice_list[j].slice})
    IN  ndarray(v.buf,
                [i \in 1..Len(free) |-> v.shape[free[i]]],
                [p \in 1..Len(v.sel) |->
                    IF v.sel[p].fixed THEN v.sel[p]
                    ELSE IF slice_list[v.sel[p].at].slice
                         THEN [fixed |-> FALSE, at |-> index(free, v.sel[p].at)]
                         ELSE [fixed |-> TRUE, at |-> slice_list[v.sel[p].at].n]])

\* the heap after a buffer is allocated, and the number of the new buffer
np_alloc(h, a) == Append(h, a)

np_new(h) == Len(h) + 1

(***************************************************************************)
(* HilbertArray objects (array.py): the array record of above with an      *)
(* ndarray object for nparray.  Every operation takes the heap and gives   *)
(* the outcome of the call and the heap after it.                          *)
(***************************************************************************)
\* the array as a value: its space, axes and the entries read from the heap
value(h, self) == HilbertArray(self.space, np_read(h, self.nparray))

Result(o, h) == [out |-> o, heap |-> h]

\* a variant of copy that hands out the nparray of self
copy_shared(h, self) ==
    Result(Return(HilbertArray(self.space, self.nparray)), h)

\* HilbertArray.copy: ret.nparray = self.nparray.copy()
copy(h, self) ==
    Result(Return(HilbertArray(self.space, np_owner(np_new(h), self.nparray.shape))),
           np_alloc(h, np_read(h, self.nparray)))

\* HilbertArray.transpose on an object: ret.nparray = self.nparray.transpose(permute)
transpose_view(h, self, tpose_axes) ==
    IF tpose_missing(self, tpose_axes) THEN Result(Raise("HilbertIndexError"), h)
    ELSE
      LET dualled   == in_space_dualled(self, tpose_atoms(self, tpose_axes))
          out_space == create_space1(dualled)
          permute   == tpose_permute(dualled, SpaceAxes(out_space))
      IN  IF ~np_transpose_ok(self.nparray, permute) THEN Result(Raise("ValueError"), h)
          ELSE Result(Return(HilbertArray(out_space,
                                          np_view_transpose(self.nparray, permute))), h)

\* HilbertArray.tensordot on objects: np.tensordot allocates the buffer of the
\* result, of which ret.nparray is the only window
tensordot_alloc(h, self, other, contraction_spaces) ==
    LET r == tensordot(value(h, self), value(h, other), contraction_spaces)
    IN  IF r.exc # "None" THEN Result(r, h)
        ELSE Result(Return(HilbertArray(r.val.space,
                                        np_owner(np_new(h), r.val.nparray.shape))),
                    np_alloc(h, r.val.nparray))

\* a number given where an array or a number may be given
Scalar(n) == [scalar |-> n]

IsScalar(v) == "scalar" \in DOMAIN v

\* HilbertArray.fill: self.nparray.fill(val); returns None
fill(h, self, n) ==
    Result(Return(SelNone),
           np_assign(h, self.nparray, [idx \in ndindex(self.nparray.shape) |-> n]))

\* HilbertArray.__imul__ with a number: self.nparray *= other
imul(h, self, n) ==
    Result(Return(self),
           np_assign(h, self.nparray,
                     [idx \in ndindex(self.nparray.shape) |->
                         np_read(h, self.nparray).data[idx] * n]))

\* HilbertArray.__iadd__: the operand must be an array, with the axes of self
iadd(h, self, other) ==
    IF IsScalar(other) THEN Result(Raise("TypeError"), h)
    ELSE IF self.axes # other.axes THEN Result(Raise("HilbertIndexError"), h)
    ELSE Result(Return(self),
                np_assign(h, self.nparray,
                          [idx \in ndindex(self.nparray.shape) |->
                              np_read(h, self.nparray).data[idx]
                                + np_read(h, other.nparray).data[idx]]))

\* HilbertArray.__add__: ret = self.copy(); ret += other
add(h, self, other) ==
    IF IsScalar(other) THEN Result(Raise("TypeError"), h)
    ELSE LET c == copy(h, self)
         IN  iadd(c.heap, c.out.val, other)

\* a variant of set_data that clears self before it compares the axes
set_data_write_first(h, self, new_data) ==
    IF IsScalar(new_data)
    THEN Result(Return(SelNone),
                np_assign(h, self.nparray,
                          [idx \in ndindex(self.nparray.shape) |-> new_data.scalar]))
    ELSE IF self.axes # new_data.axes
    THEN Result(Raise("HilbertIndexError"),
                np_assign(h, self.nparray, [idx \in ndindex(self.nparray.shape) |-> 0]))
    ELSE Result(Return(SelNone),
                np_assign(h, self.nparray, np_read(h, new_data.nparray).data))

\* HilbertArray.set_data: another array must have the same axes; anything else
\* is broadcast by self.nparray[:] = new_data
set_data(h, self, new_data) ==
    IF IsScalar(new_data)
    THEN Result(Return(SelNone),
                np_assign(h, self.nparray,
                          [idx \in ndindex(self.nparray.shape) |-> new_data.scalar]))
    ELSE IF self.axes # new_data.axes THEN Result(Raise("HilbertIndexError"), h)
    ELSE Result(Return(SelNone),
                np_assign(h, self.nparray, np_read(h, new_data.nparray).data))

\* the three forms of an index key: a dict from spaces to index values, a
\* tuple with one integer or slice per axis, a bare integer or slice
KeyDict(map) == [kind |-> "dict", map |-> map]

KeyTuple(items) == [kind |-> "tuple", items |-> items]

KeyBare(item) == [kind |-> "bare", item |-> item]

\* HilbertArray._index_key_to_map: the index value of every atom that the key
\* fixes, or HilbertIndexError
index_key_to_map(self, key) ==
    LET index_map ==
          IF key.kind = "dict"
          THEN [a \in UNION {Range(SpaceAxes(k)) : k \in DOMAIN key.map} |->
                   LET k == CHOOSE k \in DOMAIN key.map : a \in Range(SpaceAxes(k))
                   IN  key.map[k][index(SpaceAxes(k), a)]]
          ELSE IF key.kind = "tuple"
          THEN [a \in {self.axes[i] : i \in {j \in 1..Len(key.items) :
                                                j <= Len(self.axes) /\ ~key.items[j].slice}} |->
                   key.items[index(self.axes, a)].n]
          ELSE [a \in (IF key.item.slice \/ Len(self.axes) = 0 THEN {} ELSE {self.axes[1]}) |->
                   key.item.n]
    IN  IF key.kind = "dict"
           /\ \E k \in DOMAIN key.map : Len(SpaceAxes(k)) # Len(key.map[k])
        THEN Raise("HilbertIndexError")
        ELSE IF key.kind = "tuple" /\ Len(key.items) # Len(self.axes)
        THEN Raise("HilbertIndexError")
        ELSE IF key.kind = "bare" /\ Len(self.axes) # 1
        THEN Raise("HilbertIndexError")
        ELSE IF \E spc \in DOMAIN index_map : spc \notin Range(self.axes)
        THEN Raise("HilbertIndexError")
        ELSE Return(index_map)

\* a variant of the index lookup that takes the index value for the position
indices_index_as_position(indices, v) == v % Len(indices)

\* x.indices.index(v), as a numpy position (0-based)
indices_index(indices, v) == index(indices, v) - 1

\* x.indices.index(v) raises ValueError
not_in_indices(indices, v) == v \notin Range(indices)

\* a variant of the handler that lets the ValueError of list.index through
index_lookup_error_uncaught == "ValueError"

\* except ValueError: raise HilbertIndexError
index_lookup_error == "HilbertIndexError"

\* a variant of slice_list that fixes every indexed axis at its first position
slice_list_first(self, index_map) ==
    [i \in 1..Len(self.axes) |->
        IF self.axes[i] \in DOMAIN index_map THEN SliceInt(0) ELSE SliceNone]

\* _get_set_item: slice_list, an integer for each fixed axis and slice(None) for
\* the others
slice_list(self, index_map) ==
    [i \in 1..Len(self.axes) |->
        IF self.axes[i] \in DOMAIN index_map
        THEN SliceInt(indices_index(self.axes[i].indices, index_map[self.axes[i]]))
        ELSE SliceNone]

\* _get_set_item: out_axes, the axes that the key leaves free
out_axes(self, index_map) ==
    LET free == Ascending({i \in 1..Len(self.axes) : self.axes[i] \notin DOMAIN index_map})
    IN  [j \in 1..Len(free) |-> self.axes[free[j]]]

\* HilbertArray._get_set_item (with a number for set_val when the key fixes
\* every axis)
get_set_item(h, self, key, do_set, set_val) ==
    LET km == index_key_to_map(self, key)
    IN  IF km.exc # "None" THEN Result(km, h)
        ELSE IF \E a \in DOMAIN km.val : not_in_indices(a.indices, km.val[a])
        THEN Result(Raise(index_lookup_error), h)
        ELSE
          LET sl     == slice_list(self, km.val)
              oa     == out_axes(self, km.val)
              sliced == np_view_index(self.nparray, sl)
          IN  IF Len(oa) = 0
              THEN LET h1 == IF do_set
                             THEN np_assign(h, sliced, [idx \in {<<>>} |-> set_val.scalar])
                             ELSE h
                   IN  Result(Return(Scalar(np_read(h1, sliced).data[<<>>])), h1)
              ELSE LET ret_space == create_space1(oa)
                       permute   == [i \in 1..Len(oa) |-> index(oa, SpaceAxes(ret_space)[i])]
                       ret       == HilbertArray(ret_space, np_view_transpose(sliced, permute))
                   IN  IF do_set
                       THEN LET s == set_data(h, ret, set_val)
                            IN  IF s.out.exc # "None" THEN s
                                ELSE Result(Return(ret), s.heap)
                       ELSE Result(Return(ret), h)

\* HilbertArray.__getitem__
getitem(h, self, key) == get_set_item(h, self, key, FALSE, Scalar(0))

\* HilbertArray.__setitem__
setitem(h, self, key, v) == get_set_item(h, self, key, TRUE, v)

\* HilbertArray.__mul__ with a number: ret = self.copy(); ret *= other
mul_scalar(h, self, n) ==
    LET c == copy(h, self)
    IN  imul(c.heap, c.out.val, n)

\* hs.H: every atom of the space daggered
SpaceH(hs) == create_space2({H(a) : a \in hs.bra_set}, {H(a) : a \in hs.ket_set})

(***************************************************************************)
(* relabel (array.py), by a product with the identity array of             *)
(* to_space * from_space.H (kets) or from_space.H * to_space (bras).       *)
(***************************************************************************)
\* hs.eye() (space.py, modelled from the specification): the identity map from
\* the bras of hs to its kets, 1 where the kets' joint position equals the bras'
eye(hs) ==
    LET nk    == Len(sorted_kets(hs))
        shape == SpaceShape(hs)
    IN  HilbertArray(hs,
            [shape |-> shape,
             data  |-> [idx \in ndindex(shape) |->
                           IF encode(SubSeq(idx, 1, nk), SubSeq(shape, 1, nk))
                                = encode(SubSeq(idx, nk + 1, Len(idx)),
                                         SubSeq(shape, nk + 1, Len(shape)))
                           THEN 1 ELSE 0]])

\* hs.eye() as an object: a new array that owns its buffer
eye_alloc(h, hs) ==
    Result(Return(HilbertArray(hs, np_owner(np_new(h), SpaceShape(hs)))),
           np_alloc(h, eye(hs).nparray))

\* relabel: "we were given bra spaces"
given_bras(from_space, to_space) == from_space.ket_set = {} /\ to_space.ket_set = {}

\* a variant of the ket test that is content with one of the two spaces
given_kets_either(from_space, to_space) == from_space.bra_set = {} \/ to_space.bra_set = {}

\* relabel: "we were given ket spaces"
given_kets(from_space, to_space) == from_space.bra_set = {} /\ to_space.bra_set = {}

\* a variant of the ket case that multiplies by the identity of to_space * to_space.H
relabel_eye_kets_to_to(from_space, to_space) == space_mul(to_space, SpaceH(to_space))

\* relabel, ket case: the space to_space * from_space.H of the identity
relabel_eye_kets(from_space, to_space) == space_mul(to_space, SpaceH(from_space))

\* relabel, bra case: the space from_space.H * to_space of the identity
relabel_eye_bras(from_space, to_space) == space_mul(SpaceH(from_space), to_space)

\* HilbertArray.relabel
relabel(h, self, from_space, to_space) ==
    IF given_bras(from_space, to_space)
    THEN LET e == eye_alloc(h, relabel_eye_bras(from_space, to_space))
         IN  tensordot_alloc(e.heap, self, e.out.val, SelNone)
    ELSE IF given_kets(from_space, to_space)
    THEN LET e == eye_alloc(h, relabel_eye_kets(from_space, to_space))
         IN  tensordot_alloc(e.heap, e.out.val, self, SelNone)
    ELSE Result(Raise("BraKetMixtureError"), h)

(***************************************************************************)
(* Derived arrays and in-place changes: one array y is derived from x (by  *)
(* transpose, indexing, relabel, copy, a product or a sum), then x or y is *)
(* changed in place by fill, by a scalar *= or by an index assignment.     *)
(***************************************************************************)
\* largest rank of the array x that the others are derived from
MaxObjRank == 2
ObjSpaces == {SpaceOf(S) : S \in {T \in SUBSET AllAtoms : Cardinality(T) \in 1..MaxObjRank}}

\* the numbers written by fill and by index assignment
Values == {0, 9}

\* no array (yet)
NoArray == [none |-> TRUE]

IsArray(a) == "space" \in DOMAIN a

\* the index values tried for an atom: the members of its index set, and 0 and 5
\* (5 is in no index set, 0 is not in that of b)
KeyValues(a) == Range(a.indices) \cup {0, 5}

\* the tuples with, for each axis, an index value or a slice
RECURSIVE TupleItems(_)
TupleItems(axes) ==
    IF Len(axes) = 0 THEN {<<>>}
    ELSE {<<i>> \o t : i \in {SliceInt(n) : n \in KeyValues(Head(axes))} \cup {SliceNone},
                       t \in TupleItems(Tail(axes))}

\* the dict {atom: value, ...} that gives the atoms of S the values f
DictOf(S, f) ==
    KeyDict([k \in {AtomSpace(a) : a \in S} |->
                <<f[CHOOSE a \in S : AtomSpace(a) = k]>>])

\* the keys tried on an array: tuples of the right length and one too long,
\* dicts over some of its atoms, over an atom it does not have and over its
\* whole space, and bare values
Keys(self) ==
    {KeyTuple(t) : t \in TupleItems(self.axes)}
      \cup {KeyTuple([i \in 1..(Len(self.axes) + 1) |-> SliceInt(0)])}
      \cup UNION {{DictOf(S, f) : f \in {g \in [S -> 0..5] : \A a \in S : g[a] \in KeyValues(a)}} :
                     S \in SUBSET Range(self.axes)}
      \cup {DictOf({a}, [b \in {a} |-> a.indices[1]]) : a \in AllAtoms \ Range(self.axes)}
      \cup {KeyDict([k \in {self.space} |->
                        [i \in 1..Len(self.axes) |-> self.axes[i].indices[1]]])}
      \cup {KeyBare(i) : i \in {SliceInt(n) : n \in 0..5} \cup {SliceNone}}

\* the key that fixes every axis of an array at the first member of its index set
first_key(self) ==
    KeyTuple([i \in 1..Len(self.axes) |-> SliceInt(self.axes[i].indices[1])])

\* the selectors tried by transpose: None and every single atom
ObjSelectors == {SelNone} \cup {SelSpace(AtomSpace(a)) : a \in AllAtoms}

InitAlias ==
    /\ \E hs \in ObjSpaces :
          /\ heap = <<Ramp(hs, 1).nparray, Ramp(SpaceH(hs), 2).nparray>>
          /\ x = HilbertArray(hs, np_owner(1, SpaceShape(hs)))
          /\ z = HilbertArray(SpaceH(hs), np_owner(2, SpaceShape(SpaceH(hs))))
    /\ y = NoArray
    /\ cs = {}
    /\ s1 = {}
    /\ s2 = {}
    /\ out = [via |-> "none", call |-> Pending,
              mut |-> [op |-> "none", target |-> "none"], px |-> NoArray, py |-> NoArray]
    /\ mode = "alias"
    /\ xkey = 0
    /\ val = 0

\* y = <the call r>, recorded as made by the operation via
Derive(via, r) ==
    /\ mode = "alias"
    /\ out.via = "none"
    /\ out' = [out EXCEPT !.via = via, !.call = r.out]
    /\ y' = IF r.out.exc = "None" /\ IsArray(r.out.val) THEN r.out.val ELSE NoArray
    /\ heap' = r.heap
    /\ UNCHANGED <<x, z, cs, s1, s2, mode, xkey, val>>

\* y = x.transpose(sel)
DeriveTranspose == \E sel \in ObjSelectors : Derive("transpose", transpose_view(heap, x, sel))

\* y = x[key]
DeriveGetItem == \E k \in Keys(x) : Derive("getitem", getitem(heap, x, k))

\* y = x.copy()
DeriveCopy == Derive("copy", copy(heap, x))

\* y = x * z
DeriveMul == Derive("mul", tensordot_alloc(heap, x, z, SelNone))

\* y = x * 2
DeriveMulScalar == Derive("mul_scalar", mul_scalar(heap, x, 2))

\* y = x + x
DeriveAdd == Derive("add", add(heap, x, x))

\* y = x.relabel(a, a.prime) for an axis a of x
DeriveRelabel ==
    \E a \in Range(x.axes) :
        Derive("relabel",
               relabel(heap, x, AtomSpace(a),
                       AtomSpace(HilbertAtom(a.label \o "'", a.indices, a.is_dual))))

\* the array named by a target
Target(t) == IF t = "x" THEN x ELSE y

\* the one in-place change <the call r> of the target t, by the operation op,
\* made once y has been derived; out.px and out.py keep x and y as they were
Mutate(op, t, r) ==
    /\ mode = "alias"
    /\ out.via # "none"
    /\ out.mut.op = "none"
    /\ IsArray(Target(t))
    /\ out' = [out EXCEPT !.mut = [op |-> op, target |-> t],
                          !.px = value(heap, x),
                          !.py = IF IsArray(y) THEN value(heap, y) ELSE NoArray]
    /\ heap' = r.heap
    /\ UNCHANGED <<x, y, z, cs, s1, s2, mode, xkey, val>>

\* t.fill(v)
Fill == \E t \in {"x", "y"}, v \in Values : Mutate("fill", t, fill(heap, Target(t), v))

\* t *= 2
IMulScalar == \E t \in {"x", "y"} : Mutate("imul", t, imul(heap, Target(t), 2))

\* t[first indices] = v
SetFirst ==
    \E t \in {"x", "y"}, v \in Values :
        Mutate("setitem", t, setitem(heap, Target(t), first_key(Target(t)), Scalar(v)))

NextAlias ==
    \/ DeriveTranspose \/ DeriveGetItem \/ DeriveCopy \/ DeriveMul \/ DeriveMulScalar
    \/ DeriveAdd \/ DeriveRelabel \/ Fill \/ IMulScalar \/ SetFirst

SpecAlias == InitAlias /\ [][NextAlias]_vars

\* C11: a change made in place to an array that was returned by transpose, by
\* indexing, by a product or by arithmetic leaves every entry of the array it
\* was derived from as it was
C11_DerivedArrayIsolated ==
    (mode = "alias" /\ out.mut.target = "y") => value(heap, x) = out.px

\* C12: x.copy() equals x when it is made; afterwards a change in place of
\* either one leaves the other as it was
C12_CopyIndependent ==
    (mode = "alias" /\ out.via = "copy") =>
        /\ IsArray(y)
        /\ out.mut.target = "none" => array_eq(value(heap, y), value(heap, x))
        /\ out.mut.target = "y" => value(heap, x) = out.px
        /\ out.mut.target = "x" => value(heap, y) = out.py

\* a copy was changed in place (so that it no longer equals x), or x was
C12_Witness ==
    /\ mode = "alias"
    /\ out.via = "copy"
    /\ out.mut.target = "y"
    /\ value(heap, y) # out.py
    /\ ~array_eq(value(heap, y), value(heap, x))

(***************************************************************************)
(* Indexing: x[xkey] and x[xkey] = val, in any order.                      *)
(***************************************************************************)
\* the arrays indexed: one owning its buffer, and one returned by transpose
IdxArrays(hs) ==
    {[a |-> HilbertArray(hs, np_owner(1, SpaceShape(hs))),
      h |-> <<Ramp(hs, 1).nparray>>],
     [a |-> transpose_view(<<Ramp(SpaceH(hs), 1).nparray>>,
                           HilbertArray(SpaceH(hs), np_owner(1, SpaceShape(SpaceH(hs)))),
                           SelNone).out.val,
      h |-> <<Ramp(SpaceH(hs), 1).nparray>>]}

InitIdx ==
    /\ \E hs \in ObjSpaces : \E c \in IdxArrays(hs) :
          /\ x = c.a
          /\ heap = c.h
          /\ xkey \in Keys(c.a)
    /\ val \in {Scalar(n) : n \in Values}
    /\ y = NoArray
    /\ z = NoArray
    /\ cs = {}
    /\ s1 = {}
    /\ s2 = {}
    /\ out = [set |-> Pending, get |-> Pending, px |-> NoArray]
    /\ mode = "idx"

\* y = x[xkey]
GetItem ==
    /\ mode = "idx"
    /\ out.get = Pending
    /\ LET r == getitem(heap, x, xkey)
       IN  /\ out' = [out EXCEPT !.get = r.out]
           /\ y' = IF r.out.exc = "None" /\ IsArray(r.out.val) THEN r.out.val ELSE NoArray
           /\ heap' = r.heap
    /\ UNCHANGED <<x, z, cs, s1, s2, mode, xkey, val>>

\* x[xkey] = val; out.px keeps x as it was before, and a result read earlier is
\* dropped
SetItem ==
    /\ mode = "idx"
    /\ out.set = Pending
    /\ LET r == setitem(heap, x, xkey, val)
       IN  /\ out' = [set |-> r.out, get |-> Pending, px |-> value(heap, x)]
           /\ heap' = r.heap
    /\ y' = NoArray
    /\ UNCHANGED <<x, z, cs, s1, s2, mode, xkey, val>>

NextIdx == GetItem \/ SetItem

SpecIdx == InitIdx /\ [][NextIdx]_vars

\* the index values that a key gives to atoms: those of a dict, those of a tuple
\* along the axes, that of a bare value for the first axis
KeyFixes(self, k) ==
    IF k.kind = "dict"
    THEN UNION {{<<SpaceAxes(s)[i], k.map[s][i]>> :
                    i \in {j \in 1..Len(SpaceAxes(s)) : j <= Len(k.map[s])}} :
                  s \in DOMAIN k.map}
    ELSE IF k.kind = "tuple"
    THEN {<<self.axes[i], k.items[i].n>> :
             i \in {j \in 1..Len(self.axes) : j <= Len(k.items) /\ ~k.items[j].slice}}
    ELSE IF k.item.slice THEN {} ELSE {<<self.axes[1], k.item.n>>}

\* a key of a shape that the array accepts: a dict over atoms of the array, a
\* tuple with an entry for each axis, a bare value for an array of one axis
KeyShapeOk(self, k) ==
    IF k.kind = "dict"
    THEN \A s \in DOMAIN k.map :
            /\ Range(SpaceAxes(s)) \subseteq Range(self.axes)
            /\ Len(k.map[s]) = Len(SpaceAxes(s))
    ELSE IF k.kind = "tuple" THEN Len(k.items) = Len(self.axes)
    ELSE Len(self.axes) = 1

\* the key gives some atom a value outside its index set
KeyHasBadValue(self, k) == \E p \in KeyFixes(self, k) : p[2] \notin Range(p[1].indices)

\* the atoms that a key fixes
KeyAtoms(self, k) == {p[1] : p \in KeyFixes(self, k)}

\* the key fixes every axis, at members of the index sets
FullKey(self, k) ==
    /\ KeyShapeOk(self, k)
    /\ ~KeyHasBadValue(self, k)
    /\ KeyAtoms(self, k) = Range(self.axes)

\* the place of an index value in the index set of an atom, counted from 0
PosOf(a, v) == (CHOOSE p \in 1..Len(a.indices) : a.indices[p] = v) - 1

\* the assignment (of places to atoms) that a key without bad values fixes
KeyAssignment(self, k) ==
    [a \in KeyAtoms(self, k) |->
        PosOf(a, (CHOOSE p \in KeyFixes(self, k) : p[1] = a)[2])]

\* C13: for a key k that fixes every axis, x[k] = v returns, changes the entry
\* of x at k to v and no other entry, and x[k] read afterwards returns v; a
\* bare index does so for an array of one axis
C13_SetThenGet ==
    (mode = "idx" /\ FullKey(x, xkey) /\ out.set # Pending) =>
        /\ out.set.exc = "None"
        /\ value(heap, x).nparray.data =
              [out.px.nparray.data EXCEPT
                  ![[i \in 1..Len(x.axes) |-> KeyAssignment(x, xkey)[x.axes[i]]]] = val.scalar]
        /\ out.get # Pending => out.get = Return(Scalar(val.scalar))

\* an entry of an array of rank two, at an index value that differs from its
\* place in the index set, was overwritten with another number and read back
C13_Witness ==
    /\ mode = "idx"
    /\ FullKey(x, xkey)
    /\ Len(x.axes) = 2
    /\ \E a \in Range(x.axes) : KeyAssignment(x, xkey)[a] # a.indices[KeyAssignment(x, xkey)[a] + 1]
    /\ out.set.exc = "None"
    /\ out.get = Return(Scalar(val.scalar))
    /\ value(heap, x) # out.px

\* C14: when the key gives an atom a value outside its index set, x[k] and
\* x[k] = v raise HilbertIndexError, and the failed assignment changes no entry
C14_BadIndexValue ==
    (mode = "idx" /\ KeyHasBadValue(x, xkey)) =>
        /\ out.get # Pending => out.get = Raise("HilbertIndexError")
        /\ out.set # Pending =>
              (out.set = Raise("HilbertIndexError") /\ value(heap, x) = out.px)

\* a key of an accepted shape with a value outside an index set: the assignment
\* and the read after it both raised
C14_Witness ==
    /\ mode = "idx"
    /\ KeyShapeOk(x, xkey)
    /\ KeyHasBadValue(x, xkey)
    /\ \E p \in KeyFixes(x, xkey) : p[2] \in Range(p[1].indices)
    /\ out.set = Raise("HilbertIndexError")
    /\ out.get = Raise("HilbertIndexError")
    /\ value(heap, x) = out.px

\* C15: x[k] is a bare number when k fixes every axis; otherwise it is an array
\* over the space of the free atoms, axes in canonical order, whose entry at an
\* assignment of the free atoms is the entry of x at that assignment joined
\* with the one k fixes
C15_GetItem ==
    (mode = "idx" /\ KeyShapeOk(x, xkey) /\ ~KeyHasBadValue(x, xkey) /\ out.get # Pending) =>
        LET fixed == KeyAssignment(x, xkey)
            free  == Range(x.axes) \ DOMAIN fixed
            X     == value(heap, x)
        IN  /\ out.get.exc = "None"
            /\ IF free = {}
               THEN out.get.val = Scalar(Entry(X, fixed))
               ELSE /\ IsArray(out.get.val)
                    /\ out.get.val.space = SpaceOf(free)
                    /\ WellFormed(value(heap, out.get.val))
                    /\ \A g \in Assignments(free) :
                          Entry(value(heap, out.get.val), g)
                            = Entry(X, [a \in Range(x.axes) |->
                                           IF a \in free THEN g[a] ELSE fixed[a]])

\* an array of rank two indexed with one axis fixed at the last member of its
\* index set and one left free
C15_Witness ==
    /\ mode = "idx"
    /\ KeyShapeOk(x, xkey)
    /\ ~KeyHasBadValue(x, xkey)
    /\ Len(x.axes) = 2
    /\ \E a \in Range(x.axes) :
          /\ KeyAtoms(x, xkey) = {a}
          /\ KeyAssignment(x, xkey)[a] = Len(a.indices) - 1
    /\ out.get.exc = "None"
    /\ IsArray(out.get.val)
    /\ Len(out.get.val.axes) = 1

(***************************************************************************)
(* Relabelling: y = x.relabel(s1, s2).  Two spaces of kets, or of bras, are *)
(* tried when the atoms of s1 are axes of x or s1 is a single atom.        *)
(***************************************************************************)
\* largest rank of the array relabelled
MaxRelRank == 2
\* largest number of atoms in from_space and in to_space
MaxRelAtoms == 2

\* the atoms of the arrays relabelled and of from_space
RelFromAtoms == {HilbertAtom(l, Indices(l), d) : l \in {"a", "a'", "b"}, d \in BOOLEAN}

\* the atoms of to_space
RelToAtoms == {HilbertAtom(l, Indices(l), d) : l \in {"a'", "a''", "b'"}, d \in BOOLEAN}

RelSpaces(atoms, n) == {SpaceOf(S) : S \in {T \in SUBSET atoms : Cardinality(T) \in 1..n}}

\* from_space and to_space have as many atoms, with equal index sets in sorted order
SameIndexSets(from_space, to_space) ==
    /\ Len(SpaceAxes(from_space)) = Len(SpaceAxes(to_space))
    /\ \A i \in 1..Len(SpaceAxes(from_space)) :
          SpaceAxes(from_space)[i].indices = SpaceAxes(to_space)[i].indices

\* the pairs tried: two spaces, of kets, of bras or of both, for which the
\* identity array is a square one
RelPairs ==
    {p \in RelSpaces(RelFromAtoms, MaxRelAtoms) \X RelSpaces(RelToAtoms, MaxRelAtoms) :
        SameIndexSets(p[1], p[2])}

InitRel ==
    /\ \E hs \in RelSpaces(RelFromAtoms, MaxRelRank) :
          /\ x = HilbertArray(hs, np_owner(1, SpaceShape(hs)))
          /\ heap = <<Ramp(hs, 1).nparray>>
    /\ \E p \in RelPairs :
          /\ s1 = p[1]
          /\ s2 = p[2]
          /\ \/ ~(given_bras(p[1], p[2]) \/ given_kets(p[1], p[2]))
             \/ Range(SpaceAxes(p[1])) \subseteq Range(x.axes)
             \/ Len(SpaceAxes(p[1])) = 1
    /\ y = NoArray
    /\ z = NoArray
    /\ cs = {}
    /\ out = [r |-> Pending]
    /\ mode = "rel"
    /\ xkey = 0
    /\ val = 0

\* y = x.relabel(s1, s2)
Relabel ==
    /\ mode = "rel"
    /\ out.r = Pending
    /\ LET r == relabel(heap, x, s1, s2)
       IN  /\ out' = [r |-> r.out]
           /\ y' = IF r.out.exc = "None" THEN r.out.val ELSE NoArray
           /\ heap' = r.heap
    /\ UNCHANGED <<x, z, cs, s1, s2, mode, xkey, val>>

NextRel == Relabel

SpecRel == InitRel /\ [][NextRel]_vars

\* the atom that relabelling from from_space to to_space puts in the place of a
RelabelAtom(a, from_space, to_space) ==
    IF a \in Range(SpaceAxes(from_space))
    THEN SpaceAxes(to_space)[index(SpaceAxes(from_space), a)]
    ELSE a

\* from_space and to_space are both ket spaces or both bra spaces, with as many
\* atoms, and every atom of from_space is an axis of self
RelabelApplies(self, from_space, to_space) ==
    /\ \/ from_space.ket_set \cup to_space.ket_set = {}
       \/ from_space.bra_set \cup to_space.bra_set = {}
    /\ Len(SpaceAxes(from_space)) = Len(SpaceAxes(to_space))
    /\ Range(SpaceAxes(from_space)) \subseteq Range(self.axes)

\* no atom of to_space is an axis of self that stays
RelabelNoClash(self, from_space, to_space) ==
    Range(SpaceAxes(to_space)) \cap (Range(self.axes) \ Range(SpaceAxes(from_space))) = {}

\* the call returned x with every atom of s1 replaced by the atom of s2 at the
\* same sorted position: the axis set, the entries addressed by atom, and the
\* raw buffer when the replacement keeps the axes in their order
RelabelledAsClaimed ==
    /\ out.r.exc = "None"
    /\ LET X   == value(heap, x)
           R   == value(heap, out.r.val)
           new == {RelabelAtom(a, s1, s2) : a \in Range(x.axes)}
       IN  /\ R.space = SpaceOf(new)
           /\ WellFormed(R)
           /\ \A g \in Assignments(Range(x.axes)) :
                 Entry(R, [b \in new |->
                              g[CHOOSE a \in Range(x.axes) : RelabelAtom(a, s1, s2) = b]])
                   = Entry(X, g)
           /\ (R.axes = [i \in 1..Len(x.axes) |-> RelabelAtom(x.axes[i], s1, s2)])
                 => R.nparray = X.nparray

C17_RelabelMixture ==
    (mode = "rel" /\ out.r # Pending
       /\ ~(s1.bra_set \cup s2.bra_set = {}) /\ ~(s1.ket_set \cup s2.ket_set = {})) =>
        /\ out.r = Raise("BraKetMixtureError")
        /\ value(heap, x) = Ramp(x.space, 1)

\* a ket space relabelled to a bra space with as many atoms, all of s1 in x
C17_Witness ==
    /\ mode = "rel"
    /\ s1.bra_set = {}
    /\ s2.ket_set = {}
    /\ Len(SpaceAxes(s1)) = Len(SpaceAxes(s2))
    /\ s1.ket_set \subseteq Range(x.axes)
    /\ out.r = Raise("BraKetMixtureError")

(***************************************************************************)
(* Atoms as objects (atom.py).  Here the heap is a sequence of atom        *)
(* objects and an atom is known by its place in it; _H holds the place of  *)
(* the dual and _prime that of the primed atom, 0 standing for None.       *)
(***************************************************************************)
AtomObject(label, indices, is_dual, dual, primed) ==
    [label |-> label, indices |-> indices, is_dual |-> is_dual, _H |-> dual, _prime |-> primed]

\* a variant of the constructor whose dual is linked to itself
HilbertAtom_init_dual_unlinked(h, label, indices) ==
    [id   |-> Len(h) + 1,
     heap |-> h \o <<AtomObject(label, indices, FALSE, Len(h) + 2, 0),
                     AtomObject(label, indices, TRUE, Len(h) + 2, 0)>>]

\* HilbertAtom.__init__ without a dual: the ket is made, and in its constructor
\* the bra, HilbertAtom(label, latex_label, indices, base_field, self), whose
\* _H is the ket
HilbertAtom_init(h, label, indices) ==
    [id   |-> Len(h) + 1,
     heap |-> h \o <<AtomObject(label, indices, FALSE, Len(h) + 2, 0),
                     AtomObject(label, indices, TRUE, Len(h) + 1, 0)>>]

\* base_field.indexed_space(label, indices) (basefield.py, modelled from the
\* specification): a ket atom; with reuse, the one made earlier for the label
\* and index set if there is one
indexed_space(h, label, indices, reuse) ==
    LET made == {i \in DOMAIN h :
                    h[i].label = label /\ h[i].indices = indices /\ ~h[i].is_dual}
    IN  IF reuse /\ made # {}
        THEN [id |-> CHOOSE i \in made : \A j \in made : i <= j, heap |-> h]
        ELSE HilbertAtom_init(h, label, indices)

\* a variant of the bra case of prime that keeps self.H.prime itself
prime_of_bra_undualled(h, p) == p

\* prime, bra case: self.H.prime.H for the atom p = self.H.prime
prime_of_bra(h, p) == h[p]._H

\* HilbertAtom.prime: the memoized _prime, made on the first access
RECURSIVE prime(_, _, _)
prime(h, self, reuse) ==
    IF h[self]._prime # 0 THEN [id |-> h[self]._prime, heap |-> h]
    ELSE IF h[self].is_dual
    THEN LET p == prime(h, h[self]._H, reuse)
         IN  [id   |-> prime_of_bra(p.heap, p.id),
              heap |-> [p.heap EXCEPT ![self]._prime = prime_of_bra(p.heap, p.id)]]
    ELSE LET p == indexed_space(h, h[self].label \o "'", h[self].indices, reuse)
         IN  [id |-> p.id, heap |-> [p.heap EXCEPT ![self]._prime = p.id]]

\* the atom object as the value used for the axes of arrays
atom_value(h, i) == HilbertAtom(h[i].label, h[i].indices, h[i].is_dual)

(***************************************************************************)
(* Accesses of .H and .prime, starting from qubit('a') and                 *)
(* indexed_space('b', (1, 2, 3)); x is the atom at hand, y the one before  *)
(* the last access and z the one before the last two.                      *)
(***************************************************************************)
\* largest number of ket atoms made (each with its bra)
MaxAtoms == 4

\* the labels an atom can be made with
AtomLabels == {LabelOrder[i] : i \in 1..Len(LabelOrder)}

InitAtom ==
    /\ heap = HilbertAtom_init(HilbertAtom_init(<<>>, "a", Indices("a")).heap,
                               "b", Indices("b")).heap
    /\ x \in {1, 3}
    /\ y = 0
    /\ z = 0
    /\ cs = {}
    /\ s1 = {}
    /\ s2 = {}
    /\ out = [ops |-> <<"none", "none">>, first |-> <<0, 0, 0, 0>>, again |-> FALSE]
    /\ mode = "atom"
    /\ xkey = 0
    /\ val = 0

\* out.first, the atom returned by the first access of .prime on each atom,
\* after an access on self that returned id; out.again tells that the last
\* access was of .prime on an atom on which it had been accessed before
NoteFirst(first, h, self, id) ==
    [i \in DOMAIN h |->
        IF i = self /\ first[i] = 0 THEN id
        ELSE IF i \in DOMAIN first THEN first[i] ELSE 0]

\* x = x.H
AccessH ==
    /\ mode = "atom"
    /\ x' = heap[x]._H
    /\ y' = x
    /\ z' = y
    /\ out' = [out EXCEPT !.ops = <<out.ops[2], "H">>, !.again = FALSE]
    /\ UNCHANGED <<heap, cs, s1, s2, mode, xkey, val>>

\* x = x.prime
AccessPrime ==
    /\ mode = "atom"
    /\ (heap[x].label \o "'") \in AtomLabels
    /\ \E reuse \in BOOLEAN :
          LET r == prime(heap, x, reuse)
          IN  /\ Len(r.heap) <= 2 * MaxAtoms
              /\ heap' = r.heap
              /\ x' = r.id
              /\ out' = [ops |-> <<out.ops[2], "prime">>,
                         first |-> NoteFirst(out.first, r.heap, x, r.id),
                         again |-> out.first[x] # 0]
    /\ y' = x
    /\ z' = y
    /\ UNCHANGED <<cs, s1, s2, mode, xkey, val>>

\* x = indexed_space(l, Indices(l)), called by the client
IndexedSpace ==
    /\ mode = "atom"
    /\ \E l \in AtomLabels, reuse \in BOOLEAN :
          LET r == indexed_space(heap, l, Indices(l), reuse)
          IN  /\ Len(r.heap) <= 2 * MaxAtoms
              /\ heap' = r.heap
              /\ x' = r.id
              /\ out' = [ops |-> <<"none", "none">>,
                         first |-> NoteFirst(out.first, r.heap, 0, 0),
                         again |-> FALSE]
    /\ y' = 0
    /\ z' = 0
    /\ UNCHANGED <<cs, s1, s2, mode, xkey, val>>

\* x = an atom that the client kept
Take ==
    /\ mode = "atom"
    /\ \E i \in DOMAIN heap : x' = i /\ i # x
    /\ y' = 0
    /\ z' = 0
    /\ out' = [out EXCEPT !.ops = <<"none", "none">>, !.again = FALSE]
    /\ UNCHANGED <<heap, cs, s1, s2, mode, xkey, val>>

NextAtom == AccessH \/ AccessPrime \/ IndexedSpace \/ Take

SpecAtom == InitAtom /\ [][NextAtom]_vars

\* C18: whatever was accessed before, a.H.H is a itself, and a.H has the label
\* and index set of a and the opposite duality
C18_DualIsInvolution ==
    mode = "atom" =>
        /\ \A a \in DOMAIN heap :
              /\ heap[heap[a]._H]._H = a
              /\ heap[heap[a]._H].label = heap[a].label
              /\ heap[heap[a]._H].indices = heap[a].indices
              /\ heap[heap[a]._H].is_dual = ~heap[a].is_dual
        /\ out.ops = <<"H", "H">> => x = z

\* a.prime.H.H was accessed for an atom a whose dual was primed before
C18_Witness ==
    /\ mode = "atom"
    /\ out.ops = <<"H", "H">>
    /\ x = z
    /\ Len(heap) > 4
    /\ \E a \in DOMAIN heap : heap[a]._prime = x
    /\ \E b \in DOMAIN heap : heap[b].is_dual /\ heap[b]._prime # 0

\* C19: a.prime has the label of a with an apostrophe and the index set and
\* duality of a; a.prime.H is a.H.prime; every access of a.prime returns the
\* atom that the first one returned
C19_Prime ==
    mode = "atom" =>
        /\ \A a \in DOMAIN heap :
              out.first[a] # 0 =>
                 /\ heap[a]._prime = out.first[a]
                 /\ heap[out.first[a]].label = heap[a].label \o "'"
                 /\ heap[out.first[a]].indices = heap[a].indices
                 /\ heap[out.first[a]].is_dual = heap[a].is_dual
                 /\ out.first[heap[a]._H] # 0 =>
                       /\ heap[out.first[a]]._H = out.first[heap[a]._H]
                       /\ cmp(atom_value(heap, heap[out.first[a]]._H),
                              atom_value(heap, out.first[heap[a]._H])) = 0
        /\ out.ops[2] = "prime" => x = out.first[y]

\* a.prime was accessed again, after both a.H.prime and a.prime had been
C19_Witness ==
    /\ mode = "atom"
    /\ out.ops[2] = "prime"
    /\ out.again
    /\ ~heap[y].is_dual
    /\ out.first[heap[y]._H] # 0
    /\ x = out.first[y]

(***************************************************************************)
(* Comparison of atoms: x, y and z compared pairwise by __cmp__.           *)
(***************************************************************************)
\* a variant of __cmp__ without the index-set test
atom_cmp_unchecked(self, other) == Return(cmp(self, other))

\* HilbertAtom.__cmp__ for any two atoms: the labels are compared first; atoms
\* with one label and different index sets raise MismatchedIndexSetError; then
\* is_dual is compared
atom_cmp(self, other) ==
    IF LabelRank(self.label) < LabelRank(other.label) THEN Return(-1)
    ELSE IF LabelRank(self.label) > LabelRank(other.label) THEN Return(1)
    ELSE IF self.indices # other.indices THEN Raise("MismatchedIndexSetError")
    ELSE Return(cmp(self, other))

\* the atoms compared: three labels, both dualities, two index sets
CmpAtoms ==
    {HilbertAtom(l, i, d) : l \in {"a", "a'", "b"}, i \in {<<0, 1>>, <<1, 2, 3>>},
                            d \in BOOLEAN}

InitCmp ==
    /\ x \in CmpAtoms
    /\ y \in CmpAtoms
    /\ z \in CmpAtoms
    /\ cs = {}
    /\ s1 = {}
    /\ s2 = {}
    /\ out = [xy |-> Pending, yx |-> Pending, yz |-> Pending, xz |-> Pending]
    /\ mode = "cmp"
    /\ heap = <<>>
    /\ xkey = 0
    /\ val = 0

\* cmp(x, y)
CompareXY ==
    /\ mode = "cmp"
    /\ out.xy = Pending
    /\ out' = [out EXCEPT !.xy = atom_cmp(x, y)]
    /\ UNCHANGED <<x, y, z, cs, s1, s2, mode, heap, xkey, val>>

\* cmp(y, x)
CompareYX ==
    /\ mode = "cmp"
    /\ out.yx = Pending
    /\ out' = [out EXCEPT !.yx = atom_cmp(y, x)]
    /\ UNCHANGED <<x, y, z, cs, s1, s2, mode, heap, xkey, val>>

\* cmp(y, z)
CompareYZ ==
    /\ mode = "cmp"
    /\ out.yz = Pending
    /\ out' = [out EXCEPT !.yz = atom_cmp(y, z)]
    /\ UNCHANGED <<x, y, z, cs, s1, s2, mode, heap, xkey, val>>

\* cmp(x, z)
CompareXZ ==
    /\ mode = "cmp"
    /\ out.xz = Pending
    /\ out' = [out EXCEPT !.xz = atom_cmp(x, z)]
    /\ UNCHANGED <<x, y, z, cs, s1, s2, mode, heap, xkey, val>>

NextCmp == CompareXY \/ CompareYX \/ CompareYZ \/ CompareXZ

SpecCmp == InitCmp /\ [][NextCmp]_vars

\* a comes before b: by label, and for one label the ket before the bra
Before(a, b) ==
    \/ LabelRank(a.label) < LabelRank(b.label)
    \/ (a.label = b.label /\ ~a.is_dual /\ b.is_dual)

\* C20: comparing two atoms with one label and different index sets raises
\* MismatchedIndexSetError; any other comparison orders them by label and then
\* by duality with ket before bra, and says equal exactly for one label and one
\* duality; the order is antisymmetric and transitive
C20_AtomOrder ==
    mode = "cmp" =>
        /\ out.xy # Pending =>
              IF x.label = y.label /\ x.indices # y.indices
              THEN out.xy = Raise("MismatchedIndexSetError")
              ELSE /\ out.xy.exc = "None"
                   /\ out.xy.val \in {-1, 0, 1}
                   /\ out.xy.val = -1 <=> Before(x, y)
                   /\ out.xy.val = 1 <=> Before(y, x)
                   /\ out.xy.val = 0 <=> (x.label = y.label /\ x.is_dual = y.is_dual)
        /\ (out.xy.exc = "None" /\ out.yx # Pending) =>
              (out.yx.exc = "None" /\ out.yx.val = 0 - out.xy.val)
        /\ (out.xy.exc = "None" /\ out.yz.exc = "None" /\ out.xz # Pending
              /\ out.xy.val <= 0 /\ out.yz.val <= 0) =>
              (out.xz.exc = "None" /\ out.xz.val <= 0
                 /\ (out.xz.val = 0 => (out.xy.val = 0 /\ out.yz.val = 0)))

\* a ket and a bra of one label with different index sets raised, and the bra
\* came before an atom of a later label with yet another index set
C20_Witness ==
    /\ mode = "cmp"
    /\ x.label = y.label
    /\ ~x.is_dual
    /\ y.is_dual
    /\ x.indices # y.indices
    /\ out.xy = Raise("MismatchedIndexSetError")
    /\ out.yx = Raise("MismatchedIndexSetError")
    /\ y.indices # z.indices
    /\ out.yz = Return(-1)
    /\ out.xz = Return(-1)

(***************************************************************************)
(* Construction of an array from data (HilbertArray.__init__, reached      *)
(* through hs.array(data, reshape)).                                       *)
(***************************************************************************)
\* the forms of the data argument: a nested sequence, a numpy array, None
ListData(shape, data) == [form |-> "list", shape |-> shape, data |-> data]

NdData(shape, data) == [form |-> "ndarray", shape |-> shape, data |-> data]

NoData == [form |-> "None"]

\* np.array(data, dtype): the buffer with the nesting depths as its shape
np_array(data) == [shape |-> data.shape, data |-> data.data]

\* np.zeros(shape)
np_zeros(shape) == [shape |-> shape, data |-> [idx \in ndindex(shape) |-> 0]]

\* np.product(shape)
RECURSIVE np_product(_)
np_product(shape) ==
    IF Len(shape) = 0 THEN 1 ELSE Head(shape) * np_product(Tail(shape))

\* the index tuple at a row-major position
RECURSIVE decode(_, _)
decode(n, shape) ==
    IF Len(shape) = 0 THEN <<>>
    ELSE decode(n \div shape[Len(shape)], SubSeq(shape, 1, Len(shape) - 1))
            \o <<n % shape[Len(shape)]>>

\* ndarray.reshape(shape) for a shape of the same size: the entries keep their
\* row-major positions
np_reshape(a, shape) ==
    [shape |-> shape,
     data  |-> [idx \in ndindex(shape) |-> a.data[decode(encode(idx, shape), a.shape)]]]

\* the exception raised by the statement
\*   raise HilbertShapeError(np.product(data.shape), np.product(hs.shape))
\* whose first argument reads the shape attribute of the data argument: a numpy
\* array has it, a nested sequence has not
reshape_size_error(data) ==
    IF data.form = "ndarray" THEN "HilbertShapeError" ELSE "AttributeError"

\* HilbertArray.__init__(space, data, noinit_data, reshape)
HilbertArray_init(space, data, noinit_data, reshape) ==
    LET hs == space
    IN  IF noinit_data THEN Return(HilbertArray(hs, NoArray))
        ELSE IF data = NoData THEN Return(HilbertArray(hs, np_zeros(SpaceShape(hs))))
        ELSE LET nparray == np_array(data)
             IN  IF reshape
                 THEN IF np_product(nparray.shape) # np_product(SpaceShape(hs))
                      THEN Raise(reshape_size_error(data))
                      ELSE IF np_reshape(nparray, SpaceShape(hs)).shape # SpaceShape(hs)
                           THEN Raise("HilbertShapeError")
                           ELSE Return(HilbertArray(hs, np_reshape(nparray, SpaceShape(hs))))
                 ELSE IF nparray.shape # SpaceShape(hs)
                      THEN Raise("HilbertShapeError")
                      ELSE Return(HilbertArray(hs, nparray))

\* hs.array(data, reshape=reshape) (space.py, modelled from the specification):
\* the constructor with noinit_data=False
space_array(hs, data, reshape) == HilbertArray_init(hs, data, FALSE, reshape)

(***************************************************************************)
(* Basis vectors and the Pauli X operator of an atom (atom.py).            *)
(***************************************************************************)
\* hs.O (space.py, modelled from the specification): the operator space
\* hs * hs.H, every atom of hs as a ket and as a bra
O(hs) ==
    create_space2(hs.ket_set \cup {H(a) : a \in hs.bra_set},
                  hs.bra_set \cup {H(a) : a \in hs.ket_set})

\* hs.basis_vec(index_map) (space.py, modelled from the specification): the
\* array over hs with a 1 in the slot of the given index values, zeros elsewhere
basis_vec(hs, index_map) ==
    LET axes == SpaceAxes(hs)
    IN  IF \E i \in 1..Len(axes) : not_in_indices(axes[i].indices, index_map[axes[i]])
        THEN Raise(index_lookup_error)
        ELSE Return(HilbertArray(hs,
                 [shape |-> SpaceShape(hs),
                  data  |-> [idx \in ndindex(SpaceShape(hs)) |->
                                IF \A i \in 1..Len(axes) :
                                      idx[i] = indices_index(axes[i].indices,
                                                             index_map[axes[i]])
                                THEN 1 ELSE 0]]))

\* HilbertAtom.bra(idx)
bra(self, idx) ==
    IF self.is_dual
    THEN basis_vec(AtomSpace(H(self)), H(self) :> idx)
    ELSE basis_vec(AtomSpace(self), self :> idx)

\* HilbertAtom.ket(idx)
ket(self, idx) ==
    IF self.is_dual
    THEN basis_vec(AtomSpace(self), self :> idx)
    ELSE basis_vec(AtomSpace(H(self)), H(self) :> idx)

\* HilbertAtom.pauliX()
pauliX(self) ==
    IF Len(self.indices) # 2
    THEN Raise("NotImplementedError")
    ELSE space_array(O(AtomSpace(self)),
                     ListData(<<2, 2>>, [idx \in ndindex(<<2, 2>>) |->
                                            IF idx[1] = idx[2] THEN 0 ELSE 1]),
                     FALSE)

(***************************************************************************)
(* An atom x, its basis vectors and its Pauli X operator.                  *)
(***************************************************************************)
InitGate ==
    /\ x \in AllAtoms
    /\ y = 0
    /\ z = 0
    /\ cs = {}
    /\ s1 = {}
    /\ s2 = {}
    /\ out = [X |-> Pending, k0 |-> Pending, k1 |-> Pending, b |-> Pending,
              Xk |-> Pending, XX |-> Pending]
    /\ mode = "gate"
    /\ heap = <<>>
    /\ xkey \in Range(x.indices)
    /\ val = 0

\* x.pauliX()
PauliX ==
    /\ mode = "gate"
    /\ out.X = Pending
    /\ out' = [out EXCEPT !.X = pauliX(x)]
    /\ UNCHANGED <<x, y, z, cs, s1, s2, mode, heap, xkey, val>>

\* x.ket(i) for the first member i of the index set
KetFirst ==
    /\ mode = "gate"
    /\ out.k0 = Pending
    /\ out' = [out EXCEPT !.k0 = ket(x, x.indices[1])]
    /\ UNCHANGED <<x, y, z, cs, s1, s2, mode, heap, xkey, val>>

\* x.ket(i) for the second member i of the index set
KetSecond ==
    /\ mode = "gate"
    /\ out.k1 = Pending
    /\ out' = [out EXCEPT !.k1 = ket(x, x.indices[2])]
    /\ UNCHANGED <<x, y, z, cs, s1, s2, mode, heap, xkey, val>>

\* x.bra(xkey)
Bra ==
    /\ mode = "gate"
    /\ out.b = Pending
    /\ out' = [out EXCEPT !.b = bra(x, xkey)]
    /\ UNCHANGED <<x, y, z, cs, s1, s2, mode, heap, xkey, val>>

\* x.pauliX() * x.ket(i), i the first index, once both have returned
ApplyPauliX ==
    /\ mode = "gate"
    /\ out.X.exc = "None"
    /\ out.k0.exc = "None"
    /\ out.Xk = Pending
    /\ out' = [out EXCEPT !.Xk = array_mul(out.X.val, out.k0.val)]
    /\ UNCHANGED <<x, y, z, cs, s1, s2, mode, heap, xkey, val>>

\* x.pauliX() * x.pauliX()
SquarePauliX ==
    /\ mode = "gate"
    /\ out.X.exc = "None"
    /\ out.XX = Pending
    /\ out' = [out EXCEPT !.XX = array_mul(out.X.val, out.X.val)]
    /\ UNCHANGED <<x, y, z, cs, s1, s2, mode, heap, xkey, val>>

NextGate == PauliX \/ KetFirst \/ KetSecond \/ Bra \/ ApplyPauliX \/ SquarePauliX

SpecGate == InitGate /\ [][NextGate]_vars

\* the basis vector on the ket space of atom a with 1 at the slot numbered i
KetVector(a, i) ==
    Basis(create_space2({HilbertAtom(a.label, a.indices, FALSE)}, {}), i + 1)

\* C21: for a qubit atom a with index set {0, 1}, a.ket(0) is the basis vector
\* on a's ket space with 1 at index 0, a.pauliX() * a.ket(0) equals a.ket(1),
\* and a.pauliX() * a.pauliX() equals the identity operator on a.O
C21_PauliX ==
    (mode = "gate" /\ x.indices = <<0, 1>>) =>
        /\ out.k0 # Pending => out.k0 = Return(KetVector(x, 0))
        /\ out.k1 # Pending => out.k1 = Return(KetVector(x, 1))
        /\ (out.X.exc = "None" /\ out.k0.exc = "None" /\ out.Xk # Pending) =>
              out.Xk = Return(KetVector(x, 1))
        /\ (out.X.exc = "None" /\ out.XX # Pending) =>
              out.XX = Return(eye(O(AtomSpace(x))))

(***************************************************************************)
(* Singular value decomposition: the choice of the inner spaces            *)
(* (HilbertArray.svd); the decomposition itself is the base field's.       *)
(***************************************************************************)
\* hs.ket_space(), hs.bra_space() (space.py, modelled from the
\* specification): the space of the kets alone, of the bras alone
ket_space(hs) == create_space2(hs.ket_set, {})

bra_space(hs) == create_space2({}, hs.bra_set)

\* hs.assert_ket_space() raises (space.py, modelled from the specification)
not_ket_space(hs) == hs.bra_set # {}

\* the forms of the inner_spaces argument: None, a tuple of spaces, a space
InnerNone == [kind |-> "None"]

InnerTuple(t) == [kind |-> "tuple", items |-> t]

InnerSpace(hs) == [kind |-> "HilbertSpace", space |-> hs]

\* base_field.mat_svd_full, base_field.mat_svd_partial (basefield.py): the
\* decomposition of the array over the inner spaces handed over
mat_svd_full(self, u_inner_space, v_inner_space) ==
    [fn |-> "mat_svd_full", arr |-> self, inner |-> <<u_inner_space, v_inner_space>>]

mat_svd_partial(self, s_space) ==
    [fn |-> "mat_svd_partial", arr |-> self, inner |-> <<s_space>>]

\* a variant of bra_size that counts the bra atoms
svd_bra_size_as_rank(bs) == Len(SpaceShape(bs))

\* bra_size = np.product(bs.shape)
svd_bra_size(bs) == np_product(SpaceShape(bs))

\* ket_size = np.product(ks.shape)
svd_ket_size(ks) == np_product(SpaceShape(ks))

\* a variant of the default that takes the side of the larger dimension
svd_default_inner_spaces_larger(hs, full_matrices) ==
    LET bs == bra_space(hs)
        ks == ket_space(hs)
    IN  IF full_matrices THEN Return(InnerTuple(<<ks, SpaceH(bs)>>))
        ELSE IF ks = bs THEN Return(InnerTuple(<<ks>>))
        ELSE IF svd_bra_size(bs) > svd_ket_size(ks) THEN Return(InnerTuple(<<SpaceH(bs)>>))
        ELSE IF svd_ket_size(ks) > svd_bra_size(bs) THEN Return(InnerTuple(<<ks>>))
        ELSE Raise("HilbertError")

\* svd, "if inner_spaces is None": the inner spaces taken by default
svd_default_inner_spaces(hs, full_matrices) ==
    LET bs == bra_space(hs)
        ks == ket_space(hs)
    IN  IF full_matrices THEN Return(InnerTuple(<<ks, SpaceH(bs)>>))
        ELSE IF ks = bs THEN Return(InnerTuple(<<ks>>))
        ELSE IF svd_bra_size(bs) < svd_ket_size(ks) THEN Return(InnerTuple(<<SpaceH(bs)>>))
        ELSE IF svd_ket_size(ks) < svd_bra_size(bs) THEN Return(InnerTuple(<<ks>>))
        ELSE Raise("HilbertError")

\* HilbertArray.svd(inner_spaces, full_matrices)
svd(self, inner_spaces, full_matrices) ==
    LET chosen == IF inner_spaces = InnerNone
                  THEN svd_default_inner_spaces(self.space, full_matrices)
                  ELSE Return(inner_spaces)
    IN  IF chosen.exc # "None" THEN chosen
        ELSE IF chosen.val.kind # "tuple" THEN Raise("TypeError")
        ELSE LET t == chosen.val.items
             IN  IF full_matrices
                 THEN IF Len(t) # 2 THEN Raise("ValueError")
                      ELSE IF not_ket_space(t[1]) \/ not_ket_space(t[2])
                           THEN Raise("NotKetSpaceError")
                           ELSE Return(mat_svd_full(self, t[1], t[2]))
                 ELSE IF Len(t) # 1 THEN Raise("ValueError")
                      ELSE Return(mat_svd_partial(self, t[1]))

(***************************************************************************)
(* x.svd(s1, full_matrices=s2).                                            *)
(***************************************************************************)
MaxSvdRank == 2

\* the atoms of the arrays decomposed: a and a' have index sets of one size
SvdAtoms == {HilbertAtom(l, Indices(l), d) : l \in {"a", "a'", "b"}, d \in BOOLEAN}

SvdSpaces == {SpaceOf(S) : S \in {T \in SUBSET SvdAtoms : Cardinality(T) \in 1..MaxSvdRank}}

\* the inner_spaces arguments tried for an array over hs
InnerArgs(hs) ==
    {InnerNone,
     InnerTuple(<<ket_space(hs)>>),
     InnerTuple(<<SpaceH(bra_space(hs))>>),
     InnerTuple(<<ket_space(hs), SpaceH(bra_space(hs))>>),
     InnerTuple(<<ket_space(hs), bra_space(hs)>>),
     InnerSpace(ket_space(hs))}

InitSvd ==
    /\ x \in {Ramp(hs, 1) : hs \in SvdSpaces}
    /\ y = 0
    /\ z = 0
    /\ cs = {}
    /\ s1 \in InnerArgs(x.space)
    /\ s2 \in BOOLEAN
    /\ out = [svd |-> Pending]
    /\ mode = "svd"
    /\ heap = <<>>
    /\ xkey = 0
    /\ val = 0

\* x.svd(s1, s2)
Svd ==
    /\ mode = "svd"
    /\ out.svd = Pending
    /\ out' = [out EXCEPT !.svd = svd(x, s1, s2)]
    /\ UNCHANGED <<x, y, z, cs, s1, s2, mode, heap, xkey, val>>

NextSvd == Svd

SpecSvd == InitSvd /\ [][NextSvd]_vars

\* the dimension of the ket side and of the bra side of an array
KetDim(arr) == np_product(SpaceShape(create_space2(arr.space.ket_set, {})))

BraDim(arr) == np_product(SpaceShape(create_space2({}, arr.space.bra_set)))

\* x.svd(full_matrices=False) has been called with no inner space
SvdByDefault == mode = "svd" /\ s1 = InnerNone /\ ~s2 /\ out.svd # Pending

\* C22: svd(full_matrices=False) with no inner space given, on an array whose
\* ket-side and bra-side dimensions differ, decomposes over the ket space if
\* the ket dimension is smaller and over the dagger of the bra space if the
\* bra dimension is smaller
C22_SvdSmallerSide ==
    (SvdByDefault /\ KetDim(x) # BraDim(x)) =>
        out.svd = Return(mat_svd_partial(x,
                     IF KetDim(x) < BraDim(x)
                     THEN create_space2(x.space.ket_set, {})
                     ELSE create_space2({H(a) : a \in x.space.bra_set}, {})))

\* the array |b><a| was decomposed over |a>, the dagger of its bra space
C22_Witness ==
    /\ SvdByDefault
    /\ x.space = create_space2({HilbertAtom("b", Indices("b"), FALSE)},
                               {HilbertAtom("a", Indices("a"), TRUE)})
    /\ out.svd.exc = "None"
    /\ out.svd.val.inner = <<create_space2({HilbertAtom("a", Indices("a"), FALSE)}, {})>>

\* the ket space of the array equals the dagger of its bra space
SquareEqualSpace(arr) == arr.space.ket_set = {H(a) : a \in arr.space.bra_set}

\* C23 as stated: svd(full_matrices=False) with no inner space given raises the
\* disambiguation error only when the ket space equals the dagger of the bra
\* space, and resolves the inner space whenever the two are distinct
C23_SvdAsStated ==
    SvdByDefault =>
        /\ out.svd = Raise("HilbertError") => SquareEqualSpace(x)
        /\ ~SquareEqualSpace(x) => out.svd.exc = "None"

\* C23: svd(full_matrices=False) with no inner space given raises the
\* disambiguation error exactly when the ket-side and bra-side dimensions are
\* equal, whether the ket space equals the dagger of the bra space or not, and
\* resolves the inner space exactly when the dimensions differ
C23_Svd ==
    SvdByDefault =>
        /\ out.svd = Raise("HilbertError") <=> KetDim(x) = BraDim(x)
        /\ out.svd.exc = "None" <=> KetDim(x) # BraDim(x)

\* the array |a><a'|, of distinct spaces of equal dimension, raised
C23_Witness ==
    /\ SvdByDefault
    /\ x.space = create_space2({HilbertAtom("a", Indices("a"), FALSE)},
                               {HilbertAtom("a'", Indices("a'"), TRUE)})
    /\ out.svd = Raise("HilbertError")

(***************************************************************************)
(* x.array(val, reshape=s2) for a space x and data val.                    *)
(***************************************************************************)
MaxCtorRank == 2

MaxExtent == 3

MaxFlat == 6

CtorSpaces == {SpaceOf(S) : S \in {T \in SUBSET AllAtoms : Cardinality(T) \in 1..MaxCtorRank}}

\* the shapes of the data: nestings of depth up to MaxCtorRank, and flat
\* sequences of up to MaxFlat entries
CtorShapes ==
    UNION {[1..r -> 1..MaxExtent] : r \in 1..MaxCtorRank} \cup {<<n>> : n \in 1..MaxFlat}

\* the data of a shape, with pairwise different entries 1, 2, ...
CtorEntries(shape) == [idx \in ndindex(shape) |-> 1 + encode(idx, shape)]

CtorData ==
    {NoData} \cup {ListData(shape, CtorEntries(shape)) : shape \in CtorShapes}
             \cup {NdData(shape, CtorEntries(shape)) : shape \in CtorShapes}

InitCtor ==
    /\ x \in CtorSpaces
    /\ y = 0
    /\ z = 0
    /\ cs = {}
    /\ s1 = {}
    /\ s2 \in BOOLEAN
    /\ out = [new |-> Pending]
    /\ mode = "ctor"
    /\ heap = <<>>
    /\ xkey = 0
    /\ val \in CtorData

\* x.array(val, reshape=s2)
Construct ==
    /\ mode = "ctor"
    /\ out.new = Pending
    /\ out' = [out EXCEPT !.new = space_array(x, val, s2)]
    /\ UNCHANGED <<x, y, z, cs, s1, s2, mode, heap, xkey, val>>

NextCtor == Construct

SpecCtor == InitCtor /\ [][NextCtor]_vars

\* C24: constructing an array over a space from data raises HilbertShapeError
\* whenever, without reshape, the data's shape differs from the space's shape
\* or, with reshape, the data's element count differs from the product of the
\* space's shape, for a nested sequence as for a numeric buffer; otherwise the
\* array's buffer has exactly the space's shape
C24_Construct ==
    (mode = "ctor" /\ val # NoData /\ out.new # Pending) =>
        IF (s2 /\ np_product(val.shape) # np_product(SpaceShape(x)))
              \/ (~s2 /\ val.shape # SpaceShape(x))
        THEN out.new = Raise("HilbertShapeError")
        ELSE out.new.exc = "None" /\ out.new.val.nparray.shape = SpaceShape(x)

(***************************************************************************)
(* In-place operations that replace or keep the receiver (array.py).       *)
(***************************************************************************)
\* HilbertArray.__isub__: the operand must be an array, with the axes of self
isub(h, self, other) ==
    IF IsScalar(other) THEN Result(Raise("TypeError"), h)
    ELSE IF self.axes # other.axes THEN Result(Raise("HilbertIndexError"), h)
    ELSE Result(Return(self),
                np_assign(h, self.nparray,
                          [idx \in ndindex(self.nparray.shape) |->
                              np_read(h, self.nparray).data[idx]
                                - np_read(h, other.nparray).data[idx]]))

\* HilbertArray.__sub__: ret = self.copy(); ret -= other
sub(h, self, other) ==
    IF IsScalar(other) THEN Result(Raise("TypeError"), h)
    ELSE LET c == copy(h, self)
         IN  isub(c.heap, c.out.val, other)

\* a variant of _reassign that takes the buffer alone
reassign_nparray_only(self, other) == [self EXCEPT !.nparray = other.nparray]

\* HilbertArray._reassign: space, nparray and axes are taken from other
reassign(self, other) ==
    [self EXCEPT !.space = other.space, !.nparray = other.nparray, !.axes = other.axes]

\* HilbertArray.__imul__: with an array, self._reassign(self * other); with a
\* number, self.nparray *= other; returns self
array_imul(h, self, other) ==
    IF IsScalar(other) THEN imul(h, self, other.scalar)
    ELSE LET r == tensordot_alloc(h, self, other, SelNone)
         IN  IF r.out.exc # "None" THEN r
             ELSE Result(Return(reassign(self, r.out.val)), r.heap)

\* hs.array(data, reshape) as an object: a new array that owns its buffer
array_alloc(h, hs, data, reshape) ==
    LET r == space_array(hs, data, reshape)
    IN  IF r.exc # "None" THEN Result(r, h)
        ELSE Result(Return(HilbertArray(hs, np_owner(np_new(h), r.val.nparray.shape))),
                    np_alloc(h, r.val.nparray))

(***************************************************************************)
(* Sequences of operations: at most one in-place operation on x, with the  *)
(* operand y, the number val or a key, then, unless it raised, at most one *)
(* array z made from x.                                                    *)
(***************************************************************************)
MaxOpsRank == 2

OpsSpaces == {SpaceOf(S) : S \in {T \in SUBSET AllAtoms : Cardinality(T) \in 1..MaxOpsRank}}

\* the spaces of the operand y for a receiver over hs: hs, its dagger, and
\* the spaces of some of its atoms
OperandSpaces(hs) ==
    {SpaceH(hs)} \cup {SpaceOf(S) : S \in (SUBSET Range(SpaceAxes(hs))) \ {{}}}

\* the keys tried: an atom of the array at the first or second member of its
\* index set or at 5 (in no index set), an atom that the array has not, every
\* axis at its first index, a tuple that is too long
OpsKeys(self) ==
    UNION {{DictOf({a}, [b \in {a} |-> v]) : v \in {a.indices[1], a.indices[2], 5}} :
              a \in Range(self.axes)}
      \cup {DictOf({a}, [b \in {a} |-> a.indices[1]]) : a \in AllAtoms \ Range(self.axes)}
      \cup {first_key(self)}
      \cup {KeyTuple([i \in 1..(Len(self.axes) + 1) |-> SliceInt(0)])}

NoKey == [kind |-> "none"]

InitOps ==
    /\ \E hs \in OpsSpaces : \E ys \in OperandSpaces(hs) :
          /\ heap = <<Ramp(hs, 1).nparray, Ramp(ys, 2).nparray>>
          /\ x = HilbertArray(hs, np_owner(1, SpaceShape(hs)))
          /\ y = HilbertArray(ys, np_owner(2, SpaceShape(ys)))
    /\ z = NoArray
    /\ cs = {}
    /\ s1 = {}
    /\ s2 = {}
    /\ out = [op |-> "none", key |-> NoKey, res |-> "pending",
              pre |-> NoArray, preval |-> NoArray,
              via |-> "none", vkey |-> NoKey, call |-> Pending]
    /\ mode = "ops"
    /\ xkey = 0
    /\ val = Scalar(9)

\* the in-place operation op on x, <the call r>, after which x is self_after;
\* out.pre and out.preval keep x and its entries as they were before
InPlace(op, k, r, self_after) ==
    /\ mode = "ops"
    /\ out.op = "none"
    /\ out.via = "none"
    /\ out' = [out EXCEPT !.op = op, !.key = k, !.res = r.out.exc,
                          !.pre = x, !.preval = value(heap, x)]
    /\ x' = self_after
    /\ heap' = r.heap
    /\ UNCHANGED <<y, z, cs, s1, s2, mode, xkey, val>>

\* x += y
IAddArray == InPlace("iadd", NoKey, iadd(heap, x, y), x)

\* x += val
IAddNumber == InPlace("iadd_number", NoKey, iadd(heap, x, val), x)

\* x -= y
ISubArray == InPlace("isub", NoKey, isub(heap, x, y), x)

\* x -= val
ISubNumber == InPlace("isub_number", NoKey, isub(heap, x, val), x)

\* x.set_data(y)
SetDataArray == InPlace("set_data", NoKey, set_data(heap, x, y), x)

\* x.set_data(val)
SetDataNumber == InPlace("set_data_number", NoKey, set_data(heap, x, val), x)

\* x[k] = val
SetItemNumber ==
    \E k \in OpsKeys(x) : InPlace("setitem_number", k, setitem(heap, x, k, val), x)

\* x[k] = y, for a key that leaves an axis free or is not accepted
SetItemArray ==
    \E k \in OpsKeys(x) :
        /\ mode = "ops"
        /\ out.op = "none"
        /\ out.via = "none"
        /\ LET index_map == index_key_to_map(x, k)
           IN  IF index_map.exc # "None" THEN TRUE
               ELSE DOMAIN index_map.val # Range(x.axes)
        /\ InPlace("setitem", k, setitem(heap, x, k, y), x)

\* x *= y
IMulArray ==
    LET r == array_imul(heap, x, y)
    IN  InPlace("imul", NoKey, r, IF r.out.exc = "None" THEN r.out.val ELSE x)

\* x *= val
IMulNumber == InPlace("imul_number", NoKey, array_imul(heap, x, val), x)

\* z = <the call r>, recorded as made by the operation via
Make(via, k, r) ==
    /\ mode = "ops"
    /\ out.via = "none"
    /\ out.res \in {"pending", "None"}
    /\ out' = [out EXCEPT !.via = via, !.vkey = k, !.call = r.out]
    /\ z' = IF r.out.exc = "None" /\ IsArray(r.out.val) THEN r.out.val ELSE NoArray
    /\ heap' = r.heap
    /\ UNCHANGED <<x, y, cs, s1, s2, mode, xkey, val>>

\* z = x.space.array(data, reshape) for data of the shape of x or of the shape
\* (2,), as a nested sequence
MakeArray ==
    \E shape \in {x.nparray.shape, <<2>>}, reshape \in BOOLEAN :
        Make("array", NoKey,
             array_alloc(heap, x.space, ListData(shape, CtorEntries(shape)), reshape))

\* z = x.copy()
MakeCopy == Make("copy", NoKey, copy(heap, x))

\* z = x.transpose(sel)
MakeTranspose == \E sel \in ObjSelectors : Make("transpose", NoKey, transpose_view(heap, x, sel))

\* z = x[k]
MakeGetItem == \E k \in OpsKeys(x) : Make("getitem", k, getitem(heap, x, k))

\* z = x * y
MakeMul == Make("mul", NoKey, tensordot_alloc(heap, x, y, SelNone))

\* z = x * val
MakeMulScalar == Make("mul_scalar", NoKey, mul_scalar(heap, x, val.scalar))

\* z = x + y
MakeAdd == Make("add", NoKey, add(heap, x, y))

\* z = x - y
MakeSub == Make("sub", NoKey, sub(heap, x, y))

\* z = x.relabel(a, a.prime) for an axis a of x
MakeRelabel ==
    \E a \in Range(x.axes) :
        Make("relabel", NoKey,
             relabel(heap, x, AtomSpace(a),
                     AtomSpace(HilbertAtom(a.label \o "'", a.indices, a.is_dual))))

NextOps ==
    \/ IAddArray \/ IAddNumber \/ ISubArray \/ ISubNumber
    \/ SetDataArray \/ SetDataNumber \/ SetItemNumber \/ SetItemArray
    \/ IMulArray \/ IMulNumber
    \/ MakeArray \/ MakeCopy \/ MakeTranspose \/ MakeGetItem \/ MakeMul
    \/ MakeMulScalar \/ MakeAdd \/ MakeSub \/ MakeRelabel

SpecOps == InitOps /\ [][NextOps]_vars

\* an array object is well formed: its axis list is its space's sorted kets
\* then sorted bras, as long as the rank of its buffer, whose extent along
\* each axis is the size of the index set of the axis atom
WellFormedObject(h, arr) ==
    /\ arr.axes = sorted_kets(arr.space) \o sorted_bras(arr.space)
    /\ Len(arr.axes) = Len(arr.nparray.shape)
    /\ \A i \in 1..Len(arr.axes) : arr.nparray.shape[i] = Len(arr.axes[i].indices)
    /\ DOMAIN np_read(h, arr.nparray).data = ndindex(arr.nparray.shape)

\* C25: after any of the sequences of operations (construction, copy, product,
\* array *=, transpose, relabel, indexing get and set, +, -, scalar
\* arithmetic), the receiver, the operand and the array made are well formed
C25_WellFormed ==
    mode = "ops" =>
        \A arr \in {x, y, z} : IsArray(arr) => WellFormedObject(heap, arr)

\* x *= y gave x another space, and an array was then read out of x by a key
C25_Witness ==
    /\ mode = "ops"
    /\ out.op = "imul"
    /\ out.res = "None"
    /\ x.space # out.pre.space
    /\ Len(x.axes) = 2
    /\ out.via = "getitem"
    /\ IsArray(z)
    /\ WellFormedObject(heap, z)

\* the in-place operations that raised
RaisedInPlace == mode = "ops" /\ out.op # "none" /\ out.res # "None"

\* C26: when an in-place operation on x raises (+= or -= with mismatched axes
\* or a number, set_data with mismatched axes, an index assignment with a key
\* that is not accepted, *= whose contraction fails), the space, the axis list
\* and every entry of x are as before the call
C26_FailedInPlace ==
    RaisedInPlace =>
        /\ x.space = out.pre.space
        /\ x.axes = out.pre.axes
        /\ value(heap, x) = out.preval

\* x.set_data(y) raised for a y with other axes, and x is as it was
C26_Witness ==
    /\ mode = "ops"
    /\ out.op = "set_data"
    /\ out.res = "HilbertIndexError"
    /\ x.axes # y.axes
    /\ value(heap, x) = out.preval

\* the key of the index assignment made is accepted and fixes some but not
\* all of the axes of x, at members of their index sets
ProperKeySet ==
    /\ mode = "ops"
    /\ out.op = "setitem"
    /\ KeyShapeOk(x, out.key)
    /\ ~KeyHasBadValue(x, out.key)
    /\ KeyAtoms(x, out.key) # {}
    /\ KeyAtoms(x, out.key) # Range(x.axes)

\* the space of the atoms of x that the key of the index assignment leaves free
FreeSpace == SpaceOf(Range(x.axes) \ KeyAtoms(x, out.key))

\* C29: for a key that fixes a proper subset of the axes of x and an array y
\* over the space of the free atoms, x[key] = y returns, x[key] read afterwards
\* equals y, the entries of x at key are those of y and every entry of x whose
\* fixed-atom indices differ from key is unchanged; if the axes of y are not
\* the free atoms the assignment raises and x is unchanged
C29_SetSlice ==
    ProperKeySet =>
        IF y.space = FreeSpace
        THEN /\ out.res = "None"
             /\ (out.via = "getitem" /\ out.vkey = out.key) =>
                   /\ out.call.exc = "None"
                   /\ IsArray(z)
                   /\ array_eq(value(heap, z), value(heap, y))
             /\ \A g \in Assignments(Range(x.axes)) :
                   IF \A a \in KeyAtoms(x, out.key) : g[a] = KeyAssignment(x, out.key)[a]
                   THEN Entry(value(heap, x), g)
                          = Entry(value(heap, y), [a \in Range(y.axes) |-> g[a]])
                   ELSE Entry(value(heap, x), g) = Entry(out.preval, g)
        ELSE /\ out.res = "HilbertIndexError"
             /\ x = out.pre
             /\ value(heap, x) = out.preval

\* an array of rank two was assigned an array over its free atom at the second
\* index of the other atom, which changed it, and the slice read back is y
C29_Witness ==
    /\ ProperKeySet
    /\ Len(x.axes) = 2
    /\ \E a \in KeyAtoms(x, out.key) : KeyAssignment(x, out.key)[a] = 1
    /\ y.space = FreeSpace
    /\ out.res = "None"
    /\ value(heap, x) # out.preval
    /\ out.via = "getitem"
    /\ out.vkey = out.key
    /\ array_eq(value(heap, z), value(heap, y))

(***************************************************************************)
(* The rank of a contraction (SpecTd).                                     *)
(***************************************************************************)
\* the atoms that stay uncontracted in both operands when the kets C of Y are
\* contracted with their daggers in X
RemainInBoth(X, Y, C) ==
    (Range(X.axes) \ {H(c) : c \in C}) \cap (Range(Y.axes) \ C)

\* the outcome res of X.tensordot(Y, C): an array returned is well formed and
\* of rank rank(X) + rank(Y) - 2|C|, and the call fails with
\* DuplicatedSpaceError when an atom would stay in both operands
RankAsClaimed(X, Y, C, res) ==
    /\ res.exc = "None" =>
          /\ WellFormed(res.val)
          /\ Len(res.val.axes) = Len(X.axes) + Len(Y.axes) - 2 * Cardinality(C)
    /\ RemainInBoth(X, Y, C) # {} => res = Raise("DuplicatedSpaceError")

\* the claim of C27 for the calls x.tensordot(y) and x.tensordot(y, K)
RankAsClaimedNoneAndSpace ==
    (mode = "td" /\ \A c \in cs : ~c.is_dual) =>
        /\ out.none # Pending =>
              RankAsClaimed(x, y, default_mul_space(x.space, y.space), out.none)
        /\ out.sp # Pending => RankAsClaimed(x, y, cs, out.sp)

\* C27: x.tensordot(y, C), with C the default, a frozenset of kets or a ket
\* space, never returns an array whose rank differs from
\* rank(x) + rank(y) - 2|C|; whenever an atom of one label and duality would
\* stay uncontracted in both operands, the call fails with
\* DuplicatedSpaceError
C27_TensordotRank ==
    (mode = "td" /\ \A c \in cs : ~c.is_dual) =>
        /\ out.none # Pending =>
              RankAsClaimed(x, y, default_mul_space(x.space, y.space), out.none)
        /\ out.fs # Pending => RankAsClaimed(x, y, cs, out.fs)
        /\ out.sp # Pending => RankAsClaimed(x, y, cs, out.sp)

\* C28: for every pair of spaces that relabel accepts, x.relabel(s1, s2)
\* returns an array of the rank of x with as many entries as x; when an atom
\* of s1 is not an axis of x, no array of higher rank is returned
C28_RelabelKeepsRank ==
    (mode = "rel" /\ out.r.exc = "None") =>
        /\ Len(out.r.val.axes) = Len(x.axes)
        /\ Cardinality(ndindex(out.r.val.nparray.shape))
              = Cardinality(ndindex(x.nparray.shape))

(***************************************************************************)
(* Superoperator (superop.py): the spaces given to the constructor are     *)
(* brought to ket spaces.                                                  *)
(***************************************************************************)
\* the value of the attribute reference spc.ket_space: ket_space is a method
\* of the space (it is called as hs.ket_space() at array.py line 576 and at
\* superop.py line 282), so the reference without a call is the bound method
BoundMethod(name, self) == [method |-> name, self |-> self]

IsSpace(v) == "ket_set" \in DOMAIN v

\* Superoperator._to_ket_space(spc)
to_ket_space(spc) ==
    IF spc.bra_set = {} THEN Return(spc)
    ELSE IF spc.ket_set = {} THEN Return(SpaceH(spc))
    ELSE IF spc = O(spc) THEN Return(BoundMethod("ket_space", spc))
    ELSE Raise("NotKetSpaceError")

\* hs.dim() (space.py, modelled from the specification): the number of entries
\* of an array over hs
space_dim(hs) == np_product(SpaceShape(hs))

\* Superoperator.__init__(in_space, out_space, m), for a matrix m of a shape:
\* reading .O of a bound method raises AttributeError
Superoperator_init(in_space, out_space, m_shape) ==
    LET i == to_ket_space(in_space)
        o == to_ket_space(out_space)
    IN  IF i.exc # "None" THEN i
        ELSE IF o.exc # "None" THEN o
        ELSE IF ~IsSpace(o.val) \/ ~IsSpace(i.val) THEN Raise("AttributeError")
        ELSE IF m_shape # <<space_dim(O(o.val)), space_dim(O(i.val))>>
        THEN Raise("HilbertShapeError")
        ELSE Return([in_space |-> i.val, out_space |-> o.val, m |-> m_shape])

MaxSupRank == 2

SupSpaces == {SpaceOf(S) : S \in {T \in SUBSET AllAtoms : Cardinality(T) \in 1..MaxSupRank}}

\* the shapes of the matrix m: the one that fits ket spaces of the atoms of
\* the two spaces, and (1, 1)
SupShapes(in_space, out_space) ==
    {<<1, 1>>,
     <<space_dim(O(ket_space(O(out_space)))), space_dim(O(ket_space(O(in_space))))>>}

InitSup ==
    /\ x \in SupSpaces
    /\ y \in SupSpaces
    /\ z = 0
    /\ cs = {}
    /\ s1 = {}
    /\ s2 = {}
    /\ out = [tin |-> Pending, tout |-> Pending, new |-> Pending]
    /\ mode = "sup"
    /\ heap = <<>>
    /\ xkey = 0
    /\ val \in SupShapes(x, y)

\* Superoperator._to_ket_space(x)
ToKetSpaceIn ==
    /\ mode = "sup"
    /\ out.tin = Pending
    /\ out' = [out EXCEPT !.tin = to_ket_space(x)]
    /\ UNCHANGED <<x, y, z, cs, s1, s2, mode, heap, xkey, val>>

\* Superoperator._to_ket_space(y)
ToKetSpaceOut ==
    /\ mode = "sup"
    /\ out.tout = Pending
    /\ out' = [out EXCEPT !.tout = to_ket_space(y)]
    /\ UNCHANGED <<x, y, z, cs, s1, s2, mode, heap, xkey, val>>

\* Superoperator(x, y, m) for a matrix m of shape val
NewSuperoperator ==
    /\ mode = "sup"
    /\ out.new = Pending
    /\ out' = [out EXCEPT !.new = Superoperator_init(x, y, val)]
    /\ UNCHANGED <<x, y, z, cs, s1, s2, mode, heap, xkey, val>>

NextSup == ToKetSpaceIn \/ ToKetSpaceOut \/ NewSuperoperator

SpecSup == InitSup /\ [][NextSup]_vars

\* the outcome claimed for _to_ket_space(spc): spc for a ket space, its dagger
\* for a bra space, its ket space when spc == spc.O, NotKetSpaceError otherwise
ToKetSpaceAsClaimed(spc, res) ==
    /\ res.exc = "None" => (IsSpace(res.val) /\ res.val.bra_set = {})
    /\ IF spc.bra_set = {} THEN res = Return(spc)
       ELSE IF spc.ket_set = {}
       THEN res = Return(create_space2({H(a) : a \in spc.bra_set}, {}))
       ELSE IF spc.bra_set = {H(a) : a \in spc.ket_set}
       THEN res = Return(create_space2(spc.ket_set, {}))
       ELSE res = Raise("NotKetSpaceError")

\* C30: Superoperator._to_ket_space(spc) returns a space with no bra atoms for
\* every accepted input: spc itself when spc is a ket space, its dagger when
\* spc is a bra space, its ket space when spc is self-adjoint; for every
\* other space it raises NotKetSpaceError
C30_ToKetSpace ==
    mode = "sup" =>
        /\ out.tin # Pending => ToKetSpaceAsClaimed(x, out.tin)
        /\ out.tout # Pending => ToKetSpaceAsClaimed(y, out.tout)

(***************************************************************************)
(* The whole machine: any of the groups of calls.                          *)
(***************************************************************************)
Init ==
    \/ InitTd \/ InitMul \/ InitTp \/ InitAlias \/ InitIdx \/ InitRel \/ InitAtom
    \/ InitCmp \/ InitGate \/ InitSvd \/ InitCtor
    \/ InitOps \/ InitSup

Next ==
    \/ NextTd \/ NextMul \/ NextTp \/ NextAlias \/ NextIdx \/ NextRel \/ NextAtom
    \/ NextCmp \/ NextGate \/ NextSvd \/ NextCtor
    \/ NextOps \/ NextSup

Spec == Init /\ [][Next]_vars

====
